---- MODULE Spec2Model ----
(***************************************************************************)
(* The GENUSD UTXO engine (src/phase2-genusd/genusd_engine.py): the ledger *)
(* of UTXOs, the policy engine, the MINT / TRANSFER / BURN pipelines of    *)
(* process_transaction, and the admin operations.                          *)
(*                                                                         *)
(* Amounts.  The engine compares and adds Python integers.  Its thresholds *)
(* (100_000 .. 999_999_999_999_999 minor units) do not fit the integers of *)
(* the model checker, so the model counts amounts in an abstract unit and  *)
(* gives each threshold a small value that keeps the order of the source:  *)
(*   LEVEL_0 < min_burn_amount = LEVEL_1 < LEVEL_2 < max_mint_per_tx       *)
(*           < LEVEL_3 < MAX_UTXO_AMOUNT.                                  *)
(* Every check of the engine is a comparison of sums of amounts with one   *)
(* of these thresholds, and is modelled as that comparison.                *)
(*                                                                         *)
(* Dictionaries.  A Python dict with string keys is a function whose       *)
(* domain is its key set: an output specification or a metadata record     *)
(* that lacks or adds a key is a function with another domain.             *)
(*                                                                         *)
(* Results.  A handler either returns (success, message, tx_id) or raises. *)
(* A result of the model is [e, ok, raised, msg]: e the engine state the   *)
(* call leaves behind, raised = TRUE when an exception left the handler.   *)
(***************************************************************************)
EXTENDS Integers, Sequences, FiniteSets, TLC

VARIABLES
    utxos,                    \* GENUSDEngine.utxos: utxo_id -> UTXO
    transactions,             \* GENUSDEngine.transactions: tx_id -> Transaction
    total_supply,             \* GENUSDEngine.total_supply
    verified_reserves,        \* GENUSDEngine.verified_reserves
    kyc_registry,             \* PolicyEngine.kyc_registry: owner_id -> KYC level
    blacklist,                \* PolicyEngine.blacklist
    daily_transfer_tracking,  \* PolicyEngine.daily_transfer_tracking: owner_id -> (date -> amount)
    today,                    \* the UTC date of the wall clock
    spend_count,              \* history: per utxo_id, the successful TRANSFERs/BURNs that consumed it
    commits,                  \* history: the number of transactions that succeeded so far
    frozen_ids,               \* history: the ids freeze_utxo froze and unfreeze_utxo has not unfrozen since
    last                      \* the call whose result the caller holds: what was asked, how it ended

vars == <<utxos, transactions, total_supply, verified_reserves, kyc_registry,
          blacklist, daily_transfer_tracking, today, spend_count, commits,
          frozen_ids, last>>

----------------------------------------------------------------------------
(* Constants and enums                                                     *)

MINT == "MINT"
TRANSFER == "TRANSFER"
BURN == "BURN"

ACTIVE == "active"
FROZEN == "frozen"
SPENT == "spent"

LEVEL_0 == "KYC_LEVEL_0"
LEVEL_1 == "KYC_LEVEL_1"
LEVEL_2 == "KYC_LEVEL_2"
LEVEL_3 == "KYC_LEVEL_3"
KYCLevel == {LEVEL_0, LEVEL_1, LEVEL_2, LEVEL_3}

LIMIT_LEVEL_0 == 0
LIMIT_LEVEL_1 == 2
LIMIT_LEVEL_2 == 4
LIMIT_LEVEL_3 == 8
KYC_DAILY_LIMITS ==
    (LEVEL_0 :> LIMIT_LEVEL_0) @@ (LEVEL_1 :> LIMIT_LEVEL_1) @@
    (LEVEL_2 :> LIMIT_LEVEL_2) @@ (LEVEL_3 :> LIMIT_LEVEL_3)

ASSET_CODE == "GENUSD"
MAX_UTXO_AMOUNT == 10

min_burn_amount == 2
max_mint_per_tx == 6

\* Python's None.
None == "None"

\* PolicyEngine.policies after _load_default_policy.
policies ==
    "POLICY_V1.0" :> [version |-> "POLICY_V1.0", issuer |-> "issuer",
                      min_burn_amount |-> min_burn_amount,
                      max_mint_per_tx |-> max_mint_per_tx,
                      kyc_required |-> TRUE]

allowed_jurisdictions == {"US", "GB", "SG", "JP", "CH"}

\* The fields of the dataclasses.
TransactionFields ==
    {"type", "tx_id", "timestamp", "inputs", "outputs", "policy_ref", "signatures", "metadata"}
UTXOMetadataFields ==
    {"jurisdiction", "blacklist_flag", "freeze_reason", "policy_version", "issuer_attestation"}
RequiredOutputFields ==
    {"owner_id", "asset_code", "amount", "status", "kyc_tag", "created_at", "metadata"}

----------------------------------------------------------------------------
(* Helpers                                                                 *)

RECURSIVE SumSeq(_)
\* Python's sum() over a list of integers.
SumSeq(s) == IF s = <<>> THEN 0 ELSE Head(s) + SumSeq(Tail(s))

\* f"{tx_id}:{idx}".  The index is a decimal numeral without a colon, so the
\* string splits at its last colon into the pair it was built from: the
\* format is injective, and the model keeps the pair.  idx counts from 0.
UtxoId(tx_id, idx) == <<tx_id, idx>>

\* {} : the dict without keys.
EmptyDict == [x \in {} |-> None]

\* d[k] = v on a dict d (inserts or overwrites).
DictPut(d, k, v) == [x \in DOMAIN d \cup {k} |-> IF x = k THEN v ELSE d[x]]

\* The engine state as one value.
Engine ==
    [utxos |-> utxos, transactions |-> transactions, total_supply |-> total_supply,
     verified_reserves |-> verified_reserves, kyc_registry |-> kyc_registry,
     blacklist |-> blacklist, daily_transfer_tracking |-> daily_transfer_tracking]

\* return False, msg, None
Reject(e, msg) == [e |-> e, ok |-> FALSE, raised |-> FALSE, msg |-> msg]
\* return True, msg, tx.tx_id
Accept(e, msg) == [e |-> e, ok |-> TRUE, raised |-> FALSE, msg |-> msg]
\* an exception leaves the handler
Raise(e, exc) == [e |-> e, ok |-> FALSE, raised |-> TRUE, msg |-> exc]

----------------------------------------------------------------------------
(* State queries                                                           *)

\* self.utxos.get(utxo_id); callers test "if not utxo" with HasUtxo.
get_utxo(e, utxo_id) == IF utxo_id \in DOMAIN e.utxos THEN e.utxos[utxo_id] ELSE None
HasUtxo(e, utxo_id) == utxo_id \in DOMAIN e.utxos

RECURSIVE SumAmounts(_, _)
\* sum(utxo.amount for utxo in ... if utxo_id in ids)
SumAmounts(us, ids) ==
    IF ids = {} THEN 0
    ELSE LET i == CHOOSE x \in ids : TRUE
         IN us[i].amount + SumAmounts(us, ids \ {i})

get_balance(e, owner_id) ==
    SumAmounts(e.utxos, {i \in DOMAIN e.utxos :
                           e.utxos[i].owner_id = owner_id /\ e.utxos[i].status = ACTIVE})

get_total_supply(e) == e.total_supply

----------------------------------------------------------------------------
(* Output validation and UTXO creation                                     *)

\* "" when the output passes, the message otherwise; "KeyError" when the
\* lookup metadata['jurisdiction'] raises.
_validate_output(output) ==
    IF \E f \in RequiredOutputFields : f \notin DOMAIN output
        THEN "Missing required field"
    ELSE IF output.asset_code # ASSET_CODE THEN "Invalid asset_code"
    ELSE IF output.amount <= 0 THEN "Amount must be > 0"
    ELSE IF output.amount > MAX_UTXO_AMOUNT THEN "Amount exceeds maximum"
    ELSE IF output.status # ACTIVE THEN "New UTXOs must have status 'active'"
    ELSE IF output.kyc_tag \notin KYCLevel THEN "Invalid kyc_tag"
    ELSE IF output.kyc_tag = LEVEL_0 THEN "KYC_LEVEL_0 not allowed for GENUSD"
    ELSE IF "jurisdiction" \notin DOMAIN output.metadata THEN "KeyError"
    ELSE IF output.metadata.jurisdiction \notin allowed_jurisdictions
        THEN "Jurisdiction not allowed"
    ELSE ""

\* UTXOMetadata(**output['metadata']) raises TypeError unless the keys are
\* exactly the dataclass fields.
CreateRaises(output) == DOMAIN output.metadata # UTXOMetadataFields

_create_utxo(utxo_id, output, timestamp) ==
    [utxo_id |-> utxo_id, owner_id |-> output.owner_id, asset_code |-> output.asset_code,
     amount |-> output.amount, status |-> output.status, kyc_tag |-> output.kyc_tag,
     created_at |-> timestamp,
     metadata |-> [f \in UTXOMetadataFields |-> output.metadata[f]]]

RECURSIVE CreateOutputs(_, _, _)
\* for idx, out in enumerate(tx.outputs): utxos[f"{tx_id}:{idx}"] = _create_utxo(...)
\* from index idx (1-based position idx, Python index idx-1) on.  Returns the
\* utxos reached and whether _create_utxo raised on the way.
CreateOutputs(us, tx, idx) ==
    IF idx > Len(tx.outputs) THEN [utxos |-> us, raised |-> FALSE]
    ELSE IF CreateRaises(tx.outputs[idx]) THEN [utxos |-> us, raised |-> TRUE]
    ELSE LET utxo_id == UtxoId(tx.tx_id, idx - 1)
         IN CreateOutputs(DictPut(us, utxo_id,
                                  _create_utxo(utxo_id, tx.outputs[idx], tx.timestamp)),
                          tx, idx + 1)

\* The position of the first output that fails _validate_output, 0 if none.
FirstBadOutput(outputs) ==
    IF \E i \in 1..Len(outputs) : _validate_output(outputs[i]) # ""
    THEN CHOOSE i \in 1..Len(outputs) :
            /\ _validate_output(outputs[i]) # ""
            /\ \A j \in 1..(i - 1) : _validate_output(outputs[j]) = ""
    ELSE 0

\* sum(out['amount'] for out in tx.outputs) raises KeyError on an output without 'amount'.
OutputSumRaises(outputs) == \E i \in 1..Len(outputs) : "amount" \notin DOMAIN outputs[i]
OutputSum(outputs) == SumSeq([i \in 1..Len(outputs) |-> outputs[i].amount])

----------------------------------------------------------------------------
(* MINT                                                                    *)

_validate_mint_schema(tx) ==
    IF tx.inputs # <<>> THEN "MINT transaction must have empty inputs"
    ELSE IF tx.outputs = <<>> THEN "MINT transaction must have at least one output"
    ELSE ""

\* The reserve check one unit too lenient.
MintExceedsReserves_OffByOne(supply, total_mint_amount, reserves) ==
    supply + total_mint_amount > reserves + 1

\* The reserve check on the minted amount alone, without the supply in circulation.
MintExceedsReserves_IgnoresSupply(supply, total_mint_amount, reserves) ==
    total_mint_amount > reserves

\* if self.total_supply + total_mint_amount > self.verified_reserves
MintExceedsReserves(supply, total_mint_amount, reserves) ==
    supply + total_mint_amount > reserves

\* MINT without the issuer-signature check.
_process_mint_AnySigner(e, tx) ==
    IF _validate_mint_schema(tx) # "" THEN Reject(e, _validate_mint_schema(tx))
    ELSE IF OutputSumRaises(tx.outputs) THEN Raise(e, "KeyError")
    ELSE LET total_mint_amount == OutputSum(tx.outputs)
             bad == FirstBadOutput(tx.outputs)
             made == CreateOutputs(e.utxos, tx, 1)
         IN IF MintExceedsReserves(e.total_supply, total_mint_amount, e.verified_reserves)
                THEN Reject(e, "Insufficient reserves")
            ELSE IF tx.policy_ref \notin DOMAIN policies THEN Reject(e, "Unknown policy")
            ELSE IF total_mint_amount > policies[tx.policy_ref].max_mint_per_tx
                THEN Reject(e, "Mint amount exceeds max")
            ELSE IF bad # 0 THEN
                (IF _validate_output(tx.outputs[bad]) = "KeyError"
                 THEN Raise(e, "KeyError")
                 ELSE Reject(e, _validate_output(tx.outputs[bad])))
            ELSE IF made.raised THEN Raise([e EXCEPT !.utxos = made.utxos], "TypeError")
            ELSE Accept([e EXCEPT !.utxos = made.utxos,
                                  !.total_supply = @ + total_mint_amount,
                                  !.transactions = DictPut(@, tx.tx_id, tx)],
                        "MINT successful")

\* MINT without the max_mint_per_tx test.
_process_mint_NoCap(e, tx) ==
    IF _validate_mint_schema(tx) # "" THEN Reject(e, _validate_mint_schema(tx))
    ELSE IF "issuer" \notin DOMAIN tx.signatures THEN Reject(e, "MINT requires issuer signature")
    ELSE IF OutputSumRaises(tx.outputs) THEN Raise(e, "KeyError")
    ELSE LET total_mint_amount == OutputSum(tx.outputs)
             bad == FirstBadOutput(tx.outputs)
             made == CreateOutputs(e.utxos, tx, 1)
         IN IF MintExceedsReserves(e.total_supply, total_mint_amount, e.verified_reserves)
                THEN Reject(e, "Insufficient reserves")
            ELSE IF tx.policy_ref \notin DOMAIN policies THEN Reject(e, "Unknown policy")
            ELSE IF bad # 0 THEN
                (IF _validate_output(tx.outputs[bad]) = "KeyError"
                 THEN Raise(e, "KeyError")
                 ELSE Reject(e, _validate_output(tx.outputs[bad])))
            ELSE IF made.raised THEN Raise([e EXCEPT !.utxos = made.utxos], "TypeError")
            ELSE Accept([e EXCEPT !.utxos = made.utxos,
                                  !.total_supply = @ + total_mint_amount,
                                  !.transactions = DictPut(@, tx.tx_id, tx)],
                        "MINT successful")

_process_mint(e, tx) ==
    IF _validate_mint_schema(tx) # "" THEN Reject(e, _validate_mint_schema(tx))
    ELSE IF "issuer" \notin DOMAIN tx.signatures THEN Reject(e, "MINT requires issuer signature")
    ELSE IF OutputSumRaises(tx.outputs) THEN Raise(e, "KeyError")
    ELSE LET total_mint_amount == OutputSum(tx.outputs)
             bad == FirstBadOutput(tx.outputs)
             made == CreateOutputs(e.utxos, tx, 1)
         IN IF MintExceedsReserves(e.total_supply, total_mint_amount, e.verified_reserves)
                THEN Reject(e, "Insufficient reserves")
            ELSE IF tx.policy_ref \notin DOMAIN policies THEN Reject(e, "Unknown policy")
            ELSE IF total_mint_amount > policies[tx.policy_ref].max_mint_per_tx
                THEN Reject(e, "Mint amount exceeds max")
            ELSE IF bad # 0 THEN
                (IF _validate_output(tx.outputs[bad]) = "KeyError"
                 THEN Raise(e, "KeyError")
                 ELSE Reject(e, _validate_output(tx.outputs[bad])))
            ELSE IF made.raised THEN Raise([e EXCEPT !.utxos = made.utxos], "TypeError")
            ELSE Accept([e EXCEPT !.utxos = made.utxos,
                                  !.total_supply = @ + total_mint_amount,
                                  !.transactions = DictPut(@, tx.tx_id, tx)],
                        "MINT successful")

----------------------------------------------------------------------------
(* Policy engine                                                           *)

get_kyc_level(e, owner_id) ==
    IF owner_id \in DOMAIN e.kyc_registry THEN e.kyc_registry[owner_id] ELSE None

is_blacklisted(e, owner_id) == owner_id \in e.blacklist

\* self.daily_transfer_tracking[owner_id].get(day, 0)
UsedOn(tracking, owner_id, day) ==
    IF owner_id \in DOMAIN tracking /\ day \in DOMAIN tracking[owner_id]
    THEN tracking[owner_id][day] ELSE 0

\* if owner_id not in self.daily_transfer_tracking: self.daily_transfer_tracking[owner_id] = {}
InitTracking(tracking, owner_id) ==
    IF owner_id \in DOMAIN tracking THEN tracking ELSE DictPut(tracking, owner_id, EmptyDict)

\* The limit test that also fails a transfer that reaches the ceiling exactly.
OverDailyLimit_AtCeiling(today_amount, amount, daily_limit) ==
    today_amount + amount >= daily_limit

\* The limit test that takes a ceiling of 0 as "no ceiling".
OverDailyLimit_ZeroIsUnlimited(today_amount, amount, daily_limit) ==
    daily_limit # 0 /\ today_amount + amount > daily_limit

\* if today_amount + amount > daily_limit
OverDailyLimit(today_amount, amount, daily_limit) == today_amount + amount > daily_limit

\* day is the UTC date the call reads from the wall clock.  The result carries
\* the engine state, because the call creates the owner's tracking entry.
check_daily_limit(e, owner_id, amount, day) ==
    LET kyc_level == get_kyc_level(e, owner_id)
        e1 == [e EXCEPT !.daily_transfer_tracking = InitTracking(@, owner_id)]
    IN IF kyc_level = None THEN Reject(e, "has no KYC registration")
       ELSE IF kyc_level \notin KYCLevel THEN Raise(e, "ValueError")
       ELSE IF OverDailyLimit(UsedOn(e1.daily_transfer_tracking, owner_id, day), amount,
                              KYC_DAILY_LIMITS[kyc_level])
            THEN Reject(e1, "Daily limit exceeded")
       ELSE Accept(e1, "")

record_transfer(e, owner_id, amount, day) ==
    LET t1 == InitTracking(e.daily_transfer_tracking, owner_id)
    IN [e EXCEPT !.daily_transfer_tracking =
            DictPut(t1, owner_id, DictPut(t1[owner_id], day, UsedOn(t1, owner_id, day) + amount))]

----------------------------------------------------------------------------
(* TRANSFER and BURN                                                       *)

\* Step 2 of TRANSFER and BURN: "" when every input resolves to an active
\* UTXO, else the message for the first input, in list order, that does not.
InputError(e, utxo_id) ==
    IF ~HasUtxo(e, utxo_id) THEN "Input UTXO not found"
    ELSE IF get_utxo(e, utxo_id).status # ACTIVE THEN "Input UTXO is not active"
    ELSE ""

ValidateInputs(e, inputs) ==
    IF \E i \in 1..Len(inputs) : InputError(e, inputs[i]) # ""
    THEN InputError(e, inputs[CHOOSE i \in 1..Len(inputs) :
                                /\ InputError(e, inputs[i]) # ""
                                /\ \A j \in 1..(i - 1) : InputError(e, inputs[j]) = ""])
    ELSE ""

\* input_utxos: one entry per listed id, a repeated id repeated.
InputUtxos(e, inputs) == [i \in 1..Len(inputs) |-> e.utxos[inputs[i]]]

\* for utxo in input_utxos: utxo.status = UTXOStatus.SPENT.value
MarkSpent(us, inputs) ==
    [i \in DOMAIN us |->
        IF \E k \in 1..Len(inputs) : inputs[k] = i THEN [us[i] EXCEPT !.status = SPENT]
        ELSE us[i]]

_validate_transfer_schema(tx) ==
    IF tx.inputs = <<>> THEN "TRANSFER transaction must have at least one input"
    ELSE IF tx.outputs = <<>> THEN "TRANSFER transaction must have at least one output"
    ELSE ""

\* The blacklist check without the registry lookup.
BlacklistError_FlagOnly(e, utxo) ==
    IF utxo.metadata.blacklist_flag THEN "Input UTXO belongs to blacklisted owner"
    ELSE ""

\* Step 5 of TRANSFER, per input in list order.
BlacklistError(e, utxo) ==
    IF utxo.metadata.blacklist_flag THEN "Input UTXO belongs to blacklisted owner"
    ELSE IF is_blacklisted(e, utxo.owner_id) THEN "Owner is blacklisted"
    ELSE ""

ValidateNotBlacklisted(e, input_utxos) ==
    IF \E i \in 1..Len(input_utxos) : BlacklistError(e, input_utxos[i]) # ""
    THEN BlacklistError(e, input_utxos[CHOOSE i \in 1..Len(input_utxos) :
                                /\ BlacklistError(e, input_utxos[i]) # ""
                                /\ \A j \in 1..(i - 1) : BlacklistError(e, input_utxos[j]) = ""])
    ELSE ""

\* Step 7 of TRANSFER, per output in list order.
TransferOutputError(e, output) ==
    IF _validate_output(output) # "" THEN _validate_output(output)
    ELSE IF get_kyc_level(e, output.owner_id) = None THEN "Recipient has no KYC registration"
    ELSE IF is_blacklisted(e, output.owner_id) THEN "Recipient is blacklisted"
    ELSE ""

ValidateTransferOutputs(e, outputs) ==
    IF \E i \in 1..Len(outputs) : TransferOutputError(e, outputs[i]) # ""
    THEN TransferOutputError(e, outputs[CHOOSE i \in 1..Len(outputs) :
                                /\ TransferOutputError(e, outputs[i]) # ""
                                /\ \A j \in 1..(i - 1) : TransferOutputError(e, outputs[j]) = ""])
    ELSE ""

\* Steps 9-11 of TRANSFER, on the state e1 the daily-limit check left.
\* record_day is the UTC date record_transfer reads.
ExecuteTransfer(e1, tx, owner_id, output_sum, record_day) ==
    LET spent == MarkSpent(e1.utxos, tx.inputs)
        made == CreateOutputs(spent, tx, 1)
        e2 == [e1 EXCEPT !.utxos = made.utxos]
    IN IF made.raised THEN Raise(e2, "TypeError")
       ELSE Accept([record_transfer(e2, owner_id, output_sum, record_day)
                        EXCEPT !.transactions = DictPut(@, tx.tx_id, tx)],
                   "TRANSFER successful")

\* TRANSFER with step 6 (conservation of value) moved ahead of step 3 (single
\* owner) and step 4 (sender signature).
_process_transfer_ConservationFirst(e, tx, check_day, record_day) ==
    IF _validate_transfer_schema(tx) # "" THEN Reject(e, _validate_transfer_schema(tx))
    ELSE IF ValidateInputs(e, tx.inputs) # "" THEN Reject(e, ValidateInputs(e, tx.inputs))
    ELSE LET input_utxos == InputUtxos(e, tx.inputs)
             owner_ids == {input_utxos[i].owner_id : i \in 1..Len(input_utxos)}
             owner_id == input_utxos[1].owner_id
             input_sum == SumSeq([i \in 1..Len(input_utxos) |-> input_utxos[i].amount])
             output_sum == OutputSum(tx.outputs)
             out_err == ValidateTransferOutputs(e, tx.outputs)
             limit == check_daily_limit(e, owner_id, output_sum, check_day)
         IN IF OutputSumRaises(tx.outputs) THEN Raise(e, "KeyError")
            ELSE IF input_sum # output_sum THEN Reject(e, "Input sum != Output sum")
            ELSE IF Cardinality(owner_ids) > 1
                THEN Reject(e, "All input UTXOs must belong to the same owner")
            ELSE IF owner_id \notin DOMAIN tx.signatures
                THEN Reject(e, "Missing signature from owner")
            ELSE IF ValidateNotBlacklisted(e, input_utxos) # ""
                THEN Reject(e, ValidateNotBlacklisted(e, input_utxos))
            ELSE IF out_err = "KeyError" THEN Raise(e, "KeyError")
            ELSE IF out_err # "" THEN Reject(e, out_err)
            ELSE IF ~limit.ok THEN limit
            ELSE ExecuteTransfer(limit.e, tx, owner_id, output_sum, record_day)

\* TRANSFER without step 4 (sender signature).
_process_transfer_Unsigned(e, tx, check_day, record_day) ==
    IF _validate_transfer_schema(tx) # "" THEN Reject(e, _validate_transfer_schema(tx))
    ELSE IF ValidateInputs(e, tx.inputs) # "" THEN Reject(e, ValidateInputs(e, tx.inputs))
    ELSE LET input_utxos == InputUtxos(e, tx.inputs)
             owner_ids == {input_utxos[i].owner_id : i \in 1..Len(input_utxos)}
             owner_id == input_utxos[1].owner_id
             input_sum == SumSeq([i \in 1..Len(input_utxos) |-> input_utxos[i].amount])
             output_sum == OutputSum(tx.outputs)
             out_err == ValidateTransferOutputs(e, tx.outputs)
             limit == check_daily_limit(e, owner_id, output_sum, check_day)
         IN IF Cardinality(owner_ids) > 1
                THEN Reject(e, "All input UTXOs must belong to the same owner")
            ELSE IF ValidateNotBlacklisted(e, input_utxos) # ""
                THEN Reject(e, ValidateNotBlacklisted(e, input_utxos))
            ELSE IF OutputSumRaises(tx.outputs) THEN Raise(e, "KeyError")
            ELSE IF input_sum # output_sum THEN Reject(e, "Input sum != Output sum")
            ELSE IF out_err = "KeyError" THEN Raise(e, "KeyError")
            ELSE IF out_err # "" THEN Reject(e, out_err)
            ELSE IF ~limit.ok THEN limit
            ELSE ExecuteTransfer(limit.e, tx, owner_id, output_sum, record_day)

\* TRANSFER without step 3 (single owner): the first input's owner is the sender.
_process_transfer_MixedOwners(e, tx, check_day, record_day) ==
    IF _validate_transfer_schema(tx) # "" THEN Reject(e, _validate_transfer_schema(tx))
    ELSE IF ValidateInputs(e, tx.inputs) # "" THEN Reject(e, ValidateInputs(e, tx.inputs))
    ELSE LET input_utxos == InputUtxos(e, tx.inputs)
             owner_ids == {input_utxos[i].owner_id : i \in 1..Len(input_utxos)}
             owner_id == input_utxos[1].owner_id
             input_sum == SumSeq([i \in 1..Len(input_utxos) |-> input_utxos[i].amount])
             output_sum == OutputSum(tx.outputs)
             out_err == ValidateTransferOutputs(e, tx.outputs)
             limit == check_daily_limit(e, owner_id, output_sum, check_day)
         IN IF owner_id \notin DOMAIN tx.signatures
                THEN Reject(e, "Missing signature from owner")
            ELSE IF ValidateNotBlacklisted(e, input_utxos) # ""
                THEN Reject(e, ValidateNotBlacklisted(e, input_utxos))
            ELSE IF OutputSumRaises(tx.outputs) THEN Raise(e, "KeyError")
            ELSE IF input_sum # output_sum THEN Reject(e, "Input sum != Output sum")
            ELSE IF out_err = "KeyError" THEN Raise(e, "KeyError")
            ELSE IF out_err # "" THEN Reject(e, out_err)
            ELSE IF ~limit.ok THEN limit
            ELSE ExecuteTransfer(limit.e, tx, owner_id, output_sum, record_day)

\* TRANSFER that looks the policy up, as MINT and BURN do.
_process_transfer_ChecksPolicy(e, tx, check_day, record_day) ==
    IF _validate_transfer_schema(tx) # "" THEN Reject(e, _validate_transfer_schema(tx))
    ELSE IF ValidateInputs(e, tx.inputs) # "" THEN Reject(e, ValidateInputs(e, tx.inputs))
    ELSE LET input_utxos == InputUtxos(e, tx.inputs)
             owner_ids == {input_utxos[i].owner_id : i \in 1..Len(input_utxos)}
             owner_id == input_utxos[1].owner_id
             input_sum == SumSeq([i \in 1..Len(input_utxos) |-> input_utxos[i].amount])
             output_sum == OutputSum(tx.outputs)
             out_err == ValidateTransferOutputs(e, tx.outputs)
             limit == check_daily_limit(e, owner_id, output_sum, check_day)
         IN IF Cardinality(owner_ids) > 1
                THEN Reject(e, "All input UTXOs must belong to the same owner")
            ELSE IF owner_id \notin DOMAIN tx.signatures
                THEN Reject(e, "Missing signature from owner")
            ELSE IF ValidateNotBlacklisted(e, input_utxos) # ""
                THEN Reject(e, ValidateNotBlacklisted(e, input_utxos))
            ELSE IF OutputSumRaises(tx.outputs) THEN Raise(e, "KeyError")
            ELSE IF input_sum # output_sum THEN Reject(e, "Input sum != Output sum")
            ELSE IF out_err = "KeyError" THEN Raise(e, "KeyError")
            ELSE IF out_err # "" THEN Reject(e, out_err)
            ELSE IF tx.policy_ref \notin DOMAIN policies THEN Reject(e, "Unknown policy")
            ELSE IF ~limit.ok THEN limit
            ELSE ExecuteTransfer(limit.e, tx, owner_id, output_sum, record_day)

\* check_day and record_day: the UTC dates read by check_daily_limit and by
\* record_transfer.
_process_transfer(e, tx, check_day, record_day) ==
    IF _validate_transfer_schema(tx) # "" THEN Reject(e, _validate_transfer_schema(tx))
    ELSE IF ValidateInputs(e, tx.inputs) # "" THEN Reject(e, ValidateInputs(e, tx.inputs))
    ELSE LET input_utxos == InputUtxos(e, tx.inputs)
             owner_ids == {input_utxos[i].owner_id : i \in 1..Len(input_utxos)}
             owner_id == input_utxos[1].owner_id
             input_sum == SumSeq([i \in 1..Len(input_utxos) |-> input_utxos[i].amount])
             output_sum == OutputSum(tx.outputs)
             out_err == ValidateTransferOutputs(e, tx.outputs)
             limit == check_daily_limit(e, owner_id, output_sum, check_day)
         IN IF Cardinality(owner_ids) > 1
                THEN Reject(e, "All input UTXOs must belong to the same owner")
            ELSE IF owner_id \notin DOMAIN tx.signatures
                THEN Reject(e, "Missing signature from owner")
            ELSE IF ValidateNotBlacklisted(e, input_utxos) # ""
                THEN Reject(e, ValidateNotBlacklisted(e, input_utxos))
            ELSE IF OutputSumRaises(tx.outputs) THEN Raise(e, "KeyError")
            ELSE IF input_sum # output_sum THEN Reject(e, "Input sum != Output sum")
            ELSE IF out_err = "KeyError" THEN Raise(e, "KeyError")
            ELSE IF out_err # "" THEN Reject(e, out_err)
            ELSE IF ~limit.ok THEN limit
            ELSE ExecuteTransfer(limit.e, tx, owner_id, output_sum, record_day)

_validate_burn_schema(tx) ==
    IF tx.inputs = <<>> THEN "BURN transaction must have at least one input"
    ELSE IF tx.outputs # <<>> THEN "BURN transaction must have empty outputs"
    ELSE ""

\* BURN with step 5 (mark the inputs spent) moved ahead of step 4 (policy and
\* minimum burn amount).
_process_burn_SpendsFirst(e, tx) ==
    IF _validate_burn_schema(tx) # "" THEN Reject(e, _validate_burn_schema(tx))
    ELSE IF ValidateInputs(e, tx.inputs) # "" THEN Reject(e, ValidateInputs(e, tx.inputs))
    ELSE LET input_utxos == InputUtxos(e, tx.inputs)
             owner_ids == {input_utxos[i].owner_id : i \in 1..Len(input_utxos)}
             has_issuer_sig == "issuer" \in DOMAIN tx.signatures
             has_owner_sig == \E owner_id \in owner_ids : owner_id \in DOMAIN tx.signatures
             burn_amount == SumSeq([i \in 1..Len(input_utxos) |-> input_utxos[i].amount])
             e1 == [e EXCEPT !.utxos = MarkSpent(@, tx.inputs)]
         IN IF ~(has_issuer_sig \/ has_owner_sig)
                THEN Reject(e, "BURN requires issuer or owner signature")
            ELSE IF tx.policy_ref \notin DOMAIN policies THEN Reject(e1, "Unknown policy")
            ELSE IF burn_amount < policies[tx.policy_ref].min_burn_amount
                THEN Reject(e1, "Burn amount below minimum")
            ELSE Accept([e1 EXCEPT !.total_supply = @ - burn_amount,
                                   !.transactions = DictPut(@, tx.tx_id, tx)],
                        "BURN successful")

\* BURN that also rejects a burn_amount equal to min_burn_amount.
_process_burn_MinimumExclusive(e, tx) ==
    IF _validate_burn_schema(tx) # "" THEN Reject(e, _validate_burn_schema(tx))
    ELSE IF ValidateInputs(e, tx.inputs) # "" THEN Reject(e, ValidateInputs(e, tx.inputs))
    ELSE LET input_utxos == InputUtxos(e, tx.inputs)
             owner_ids == {input_utxos[i].owner_id : i \in 1..Len(input_utxos)}
             has_issuer_sig == "issuer" \in DOMAIN tx.signatures
             has_owner_sig == \E owner_id \in owner_ids : owner_id \in DOMAIN tx.signatures
             burn_amount == SumSeq([i \in 1..Len(input_utxos) |-> input_utxos[i].amount])
         IN IF ~(has_issuer_sig \/ has_owner_sig)
                THEN Reject(e, "BURN requires issuer or owner signature")
            ELSE IF tx.policy_ref \notin DOMAIN policies THEN Reject(e, "Unknown policy")
            ELSE IF burn_amount <= policies[tx.policy_ref].min_burn_amount
                THEN Reject(e, "Burn amount below minimum")
            ELSE Accept([e EXCEPT !.utxos = MarkSpent(@, tx.inputs),
                                  !.total_supply = @ - burn_amount,
                                  !.transactions = DictPut(@, tx.tx_id, tx)],
                        "BURN successful")

\* BURN that accepts the issuer's signature only.
_process_burn_IssuerOnly(e, tx) ==
    IF _validate_burn_schema(tx) # "" THEN Reject(e, _validate_burn_schema(tx))
    ELSE IF ValidateInputs(e, tx.inputs) # "" THEN Reject(e, ValidateInputs(e, tx.inputs))
    ELSE LET input_utxos == InputUtxos(e, tx.inputs)
             owner_ids == {input_utxos[i].owner_id : i \in 1..Len(input_utxos)}
             has_issuer_sig == "issuer" \in DOMAIN tx.signatures
             has_owner_sig == \E owner_id \in owner_ids : owner_id \in DOMAIN tx.signatures
             burn_amount == SumSeq([i \in 1..Len(input_utxos) |-> input_utxos[i].amount])
         IN IF ~has_issuer_sig
                THEN Reject(e, "BURN requires issuer or owner signature")
            ELSE IF tx.policy_ref \notin DOMAIN policies THEN Reject(e, "Unknown policy")
            ELSE IF burn_amount < policies[tx.policy_ref].min_burn_amount
                THEN Reject(e, "Burn amount below minimum")
            ELSE Accept([e EXCEPT !.utxos = MarkSpent(@, tx.inputs),
                                  !.total_supply = @ - burn_amount,
                                  !.transactions = DictPut(@, tx.tx_id, tx)],
                        "BURN successful")

_process_burn(e, tx) ==
    IF _validate_burn_schema(tx) # "" THEN Reject(e, _validate_burn_schema(tx))
    ELSE IF ValidateInputs(e, tx.inputs) # "" THEN Reject(e, ValidateInputs(e, tx.inputs))
    ELSE LET input_utxos == InputUtxos(e, tx.inputs)
             owner_ids == {input_utxos[i].owner_id : i \in 1..Len(input_utxos)}
             has_issuer_sig == "issuer" \in DOMAIN tx.signatures
             has_owner_sig == \E owner_id \in owner_ids : owner_id \in DOMAIN tx.signatures
             burn_amount == SumSeq([i \in 1..Len(input_utxos) |-> input_utxos[i].amount])
         IN IF ~(has_issuer_sig \/ has_owner_sig)
                THEN Reject(e, "BURN requires issuer or owner signature")
            ELSE IF tx.policy_ref \notin DOMAIN policies THEN Reject(e, "Unknown policy")
            ELSE IF burn_amount < policies[tx.policy_ref].min_burn_amount
                THEN Reject(e, "Burn amount below minimum")
            ELSE Accept([e EXCEPT !.utxos = MarkSpent(@, tx.inputs),
                                  !.total_supply = @ - burn_amount,
                                  !.transactions = DictPut(@, tx.tx_id, tx)],
                        "BURN successful")

----------------------------------------------------------------------------
(* Entry point and admin operations                                        *)

process_transaction(e, tx_data, check_day, record_day) ==
    IF DOMAIN tx_data # TransactionFields THEN Reject(e, "Invalid transaction format")
    ELSE IF tx_data.type = MINT THEN _process_mint(e, tx_data)
    ELSE IF tx_data.type = TRANSFER THEN _process_transfer(e, tx_data, check_day, record_day)
    ELSE IF tx_data.type = BURN THEN _process_burn(e, tx_data)
    ELSE Reject(e, "Unknown transaction type")

\* set_verified_reserves that refuses an amount below the current supply.
set_verified_reserves_FloorAtSupply(e, amount) ==
    IF amount < e.total_supply THEN e ELSE [e EXCEPT !.verified_reserves = amount]

set_verified_reserves(e, amount) == [e EXCEPT !.verified_reserves = amount]

\* freeze_utxo without the test for a Spent UTXO.
freeze_utxo_SpentToo(e, utxo_id, reason) ==
    IF ~HasUtxo(e, utxo_id) THEN Reject(e, "UTXO not found")
    ELSE Accept([e EXCEPT !.utxos[utxo_id].status = FROZEN,
                          !.utxos[utxo_id].metadata.freeze_reason = reason],
                "UTXO frozen")

freeze_utxo(e, utxo_id, reason) ==
    IF ~HasUtxo(e, utxo_id) THEN Reject(e, "UTXO not found")
    ELSE IF get_utxo(e, utxo_id).status = SPENT THEN Reject(e, "Cannot freeze spent UTXO")
    ELSE Accept([e EXCEPT !.utxos[utxo_id].status = FROZEN,
                          !.utxos[utxo_id].metadata.freeze_reason = reason],
                "UTXO frozen")

\* unfreeze_utxo that restores the status and leaves the reason in place.
\* unfreeze_utxo without the test for a Frozen UTXO.
unfreeze_utxo_AnyStatus(e, utxo_id) ==
    IF ~HasUtxo(e, utxo_id) THEN Reject(e, "UTXO not found")
    ELSE Accept([e EXCEPT !.utxos[utxo_id].status = ACTIVE,
                          !.utxos[utxo_id].metadata.freeze_reason = None],
                "UTXO unfrozen")

unfreeze_utxo_KeepsReason(e, utxo_id) ==
    IF ~HasUtxo(e, utxo_id) THEN Reject(e, "UTXO not found")
    ELSE IF get_utxo(e, utxo_id).status # FROZEN THEN Reject(e, "UTXO is not frozen")
    ELSE Accept([e EXCEPT !.utxos[utxo_id].status = ACTIVE], "UTXO unfrozen")

unfreeze_utxo(e, utxo_id) ==
    IF ~HasUtxo(e, utxo_id) THEN Reject(e, "UTXO not found")
    ELSE IF get_utxo(e, utxo_id).status # FROZEN THEN Reject(e, "UTXO is not frozen")
    ELSE Accept([e EXCEPT !.utxos[utxo_id].status = ACTIVE,
                          !.utxos[utxo_id].metadata.freeze_reason = None],
                "UTXO unfrozen")

register_kyc(e, owner_id, kyc_level) ==
    [e EXCEPT !.kyc_registry = DictPut(@, owner_id, kyc_level)]

blacklist_owner(e, owner_id) == [e EXCEPT !.blacklist = @ \cup {owner_id}]

----------------------------------------------------------------------------
(* Snapshots                                                               *)

UTXOFields ==
    {"utxo_id", "owner_id", "asset_code", "amount", "status", "kyc_tag", "created_at",
     "metadata"}

\* UTXO.to_dict: asdict(self), with result['metadata'] = asdict(self.metadata)
UTXO_to_dict(utxo) ==
    [f \in UTXOFields |->
        IF f = "metadata" THEN [g \in UTXOMetadataFields |-> utxo.metadata[g]] ELSE utxo[f]]

\* UTXO.from_dict raises when a key is missing (KeyError) or when the keys of
\* data['metadata'] are not the fields of UTXOMetadata (TypeError).
FromDictRaises(data) ==
    \/ ~(UTXOFields \subseteq DOMAIN data)
    \/ DOMAIN data.metadata # UTXOMetadataFields

UTXO_from_dict(data) ==
    [utxo_id |-> data.utxo_id, owner_id |-> data.owner_id, asset_code |-> data.asset_code,
     amount |-> data.amount, status |-> data.status, kyc_tag |-> data.kyc_tag,
     created_at |-> data.created_at,
     metadata |-> [g \in UTXOMetadataFields |-> data.metadata[g]]]

\* Transaction.to_dict: asdict(self)
Transaction_to_dict(tx) == [f \in TransactionFields |-> tx[f]]

\* export_state that leaves verified_reserves out of the snapshot.
export_state_NoReserves(e) ==
    [utxos |-> [utxo_id \in DOMAIN e.utxos |-> UTXO_to_dict(e.utxos[utxo_id])],
     transactions |-> [tx_id \in DOMAIN e.transactions |->
                          Transaction_to_dict(e.transactions[tx_id])],
     total_supply |-> e.total_supply]

export_state(e) ==
    [utxos |-> [utxo_id \in DOMAIN e.utxos |-> UTXO_to_dict(e.utxos[utxo_id])],
     transactions |-> [tx_id \in DOMAIN e.transactions |->
                          Transaction_to_dict(e.transactions[tx_id])],
     total_supply |-> e.total_supply,
     verified_reserves |-> e.verified_reserves]

\* Transaction(**tx_data), for a record with exactly the fields of Transaction
Transaction_init(tx_data) == [f \in TransactionFields |-> tx_data[f]]

\* state.get(key, default)
StateGet(state, key, default) == IF key \in DOMAIN state THEN state[key] ELSE default

\* import_state raises, before it assigns anything, when a UTXO record does
\* not build (from_dict) or a transaction record is not Transaction(**tx_data).
ImportRaises(state) ==
    \/ \E utxo_id \in DOMAIN StateGet(state, "utxos", EmptyDict) :
          FromDictRaises(state.utxos[utxo_id])
    \/ \E tx_id \in DOMAIN StateGet(state, "transactions", EmptyDict) :
          DOMAIN state.transactions[tx_id] # TransactionFields

import_state(e, state) ==
    LET us == StateGet(state, "utxos", EmptyDict)
        txs == StateGet(state, "transactions", EmptyDict)
    IN IF ImportRaises(state) THEN Raise(e, "TypeError")
       ELSE Accept([e EXCEPT !.utxos = [utxo_id \in DOMAIN us |-> UTXO_from_dict(us[utxo_id])],
                             !.transactions = [tx_id \in DOMAIN txs |->
                                                  Transaction_init(txs[tx_id])],
                             !.total_supply = StateGet(state, "total_supply", 0),
                             !.verified_reserves = StateGet(state, "verified_reserves", 0)],
                   "")

----------------------------------------------------------------------------
(* The calls the model makes                                               *)

MaxInputs == 2
MaxReserves == 2
MaxCommits == 3

Owners == {"alice", "bob"}
TxIds == {"T1", "T2"}
\* The level register_kyc is called with.
RegisteredLevels == {LEVEL_1}

\* Every id a transaction of the model can create.
UtxoIds == {UtxoId(t, i) : t \in TxIds, i \in {0, 1}}

Metadata ==
    [jurisdiction |-> "US", blacklist_flag |-> FALSE, freeze_reason |-> None,
     policy_version |-> "POLICY_V1.0", issuer_attestation |-> "SHA256:attest"]

Output(owner_id, amount) ==
    [owner_id |-> owner_id, asset_code |-> ASSET_CODE, amount |-> amount, status |-> ACTIVE,
     kyc_tag |-> LEVEL_2, created_at |-> 0, metadata |-> Metadata]

\* Output specifications that pass _validate_output with a metadata record
\* that is not the dataclass's: one lacks fields, one adds a field.
ShortMetadataOutput == [Output("bob", 1) EXCEPT !.metadata = [jurisdiction |-> "US"]]
ExtraMetadataOutput ==
    [Output("bob", 1) EXCEPT !.metadata =
        [f \in UTXOMetadataFields \cup {"note"} |-> IF f = "note" THEN "n" ELSE Metadata[f]]]
\* An output specification _validate_output rejects.
SpentOutput == [Output("bob", 1) EXCEPT !.status = SPENT]

\* Input lists: up to MaxInputs ids in the order of UtxoIds, a repeated id allowed.
Before(id1, id2) ==
    \/ id1[1] = "T1" /\ id2[1] = "T2"
    \/ id1[1] = id2[1] /\ id1[2] <= id2[2]

InputListsOver(ids) ==
    {ins \in UNION {[1..n -> ids] : n \in 1..MaxInputs} :
        \A i \in 1..(Len(ins) - 1) : Before(ins[i], ins[i + 1])}

Tx(type, tx_id, inputs, outputs, policy_ref, signers) ==
    [type |-> type, tx_id |-> tx_id, timestamp |-> 10, inputs |-> inputs,
     outputs |-> outputs, policy_ref |-> policy_ref,
     signatures |-> [s \in signers |-> "SIG"], metadata |-> [memo |-> "m"]]

\* Output specifications that fail one check of _validate_output each, or
\* make it raise.
OddOutputs ==
    {SpentOutput,
     [Output("bob", 1) EXCEPT !.asset_code = "USD"],
     [Output("bob", 1) EXCEPT !.amount = 0],
     [Output("bob", 1) EXCEPT !.kyc_tag = "KYC_LEVEL_9"],
     [Output("bob", 1) EXCEPT !.kyc_tag = LEVEL_0],
     [Output("bob", 1) EXCEPT !.metadata.jurisdiction = "KP"],
     [Output("bob", 1) EXCEPT !.metadata = [memo |-> "m"]],
     [f \in RequiredOutputFields \ {"created_at"} |-> Output("bob", 1)[f]],
     [f \in RequiredOutputFields \ {"amount"} |-> Output("bob", 1)[f]]}

\* Requests that break one rule each.
OddMints ==
    {Tx(MINT, "T1", <<>>, <<Output("alice", 1)>>, "POLICY_V1.0", {"alice"}),
     Tx(MINT, "T1", <<>>, <<Output("alice", 1)>>, "POLICY_V0.9", {"issuer"}),
     Tx(MINT, "T1", <<UtxoId("T2", 0)>>, <<Output("alice", 1)>>, "POLICY_V1.0", {"issuer"}),
     Tx(MINT, "T1", <<>>, <<>>, "POLICY_V1.0", {"issuer"}),
     Tx(MINT, "T1", <<>>, <<ExtraMetadataOutput>>, "POLICY_V1.0", {"issuer"})}
    \cup {Tx(MINT, "T1", <<>>, <<output>>, "POLICY_V1.0", {"issuer"}) : output \in OddOutputs}

OddTransfers ==
    {Tx(TRANSFER, "T2", <<UtxoId("T1", 0)>>, <<Output("bob", 1)>>, "POLICY_V1.0", {"issuer"}),
     Tx(TRANSFER, "T2", <<>>, <<Output("bob", 1)>>, "POLICY_V1.0", Owners),
     Tx(TRANSFER, "T2", <<UtxoId("T1", 0)>>, <<>>, "POLICY_V1.0", Owners),
     Tx(TRANSFER, "T2", <<UtxoId("T1", 0)>>, <<SpentOutput>>, "POLICY_V1.0", Owners)}

OddBurns ==
    {Tx(BURN, "T2", <<UtxoId("T1", 0)>>, <<>>, "POLICY_V1.0", {}),
     Tx(BURN, "T2", <<UtxoId("T1", 0)>>, <<>>, "POLICY_V0.9", {"issuer"}),
     Tx(BURN, "T2", <<UtxoId("T1", 0)>>, <<Output("bob", 1)>>, "POLICY_V1.0", {"issuer"}),
     Tx(BURN, "T2", <<>>, <<>>, "POLICY_V1.0", {"issuer"})}

\* A record of an unknown type, and one that lacks keys of Transaction.
OtherRequests ==
    {Tx("SWAP", "T1", <<>>, <<>>, "POLICY_V1.0", {"issuer"}),
     [type |-> MINT, tx_id |-> "T1"]}

\* The issuer's desk: MINTs to alice under either tx_id, one of them with a
\* second output whose metadata lacks fields, BURNs of the minted UTXOs, and
\* TRANSFERs of them to bob, who is not registered.
IssuerRequests ==
    {Tx(MINT, t, <<>>, <<Output("alice", a)>>, "POLICY_V1.0", {"issuer"}) :
        t \in TxIds, a \in {1, 2}}
    \cup {Tx(MINT, t, <<>>, <<Output("alice", 1), ShortMetadataOutput>>, "POLICY_V1.0", {"issuer"}) :
        t \in TxIds}
    \cup {Tx(BURN, t, ins, <<>>, "POLICY_V1.0", {"issuer"}) :
        t \in TxIds, ins \in InputListsOver({UtxoId("T1", 0), UtxoId("T2", 0)})}
    \cup {Tx(TRANSFER, "T2", <<UtxoId("T1", 0)>>, <<Output("bob", a)>>, "POLICY_V1.0", Owners) :
        a \in {1, 2}}
    \cup OddMints \cup OddTransfers \cup OddBurns \cup OtherRequests

\* The payments desk: MINTs to alice under T1, TRANSFERs under T2
\* of any listed UTXOs to bob, to alice, or to bob with change to alice,
\* signed by both owners, one TRANSFER's output with metadata that lacks
\* fields, and BURNs under T2.
TransferOutputLists ==
    {<<Output(o, a)>> : o \in Owners, a \in {1, 2}}
    \cup {<<Output("bob", 1), Output("alice", 1)>>, <<ShortMetadataOutput>>}

PaymentRequests ==
    {Tx(MINT, "T1", <<>>, <<Output("alice", a)>>, "POLICY_V1.0", {"issuer"}) : a \in {1, 2}}
    \cup {Tx(TRANSFER, "T2", ins, outs, "POLICY_V1.0", Owners) :
            ins \in InputListsOver(UtxoIds), outs \in TransferOutputLists}
    \cup {Tx(BURN, "T2", ins, <<>>, "POLICY_V1.0", {"issuer"}) :
            ins \in InputListsOver({UtxoId("T1", 0), UtxoId("T2", 0)})}
    \cup OddMints \cup OddTransfers \cup OddBurns \cup OtherRequests

\* The custody desk: MINTs to alice under T1, one of them of an output whose
\* metadata carries a freeze_reason, and TRANSFERs under T2 of the UTXOs T1:0
\* and T2:0 to either owner, signed by both owners.
HeldOutput == [Output("alice", 1) EXCEPT !.metadata.freeze_reason = "old hold"]

CustodyRequests ==
    {Tx(MINT, "T1", <<>>, <<Output("alice", a)>>, "POLICY_V1.0", {"issuer"}) : a \in {1, 2}}
    \cup {Tx(MINT, "T1", <<>>, <<HeldOutput>>, "POLICY_V1.0", {"issuer"})}
    \cup {Tx(TRANSFER, "T2", ins, <<Output(o, a)>>, "POLICY_V1.0", Owners) :
            ins \in InputListsOver({UtxoId("T1", 0), UtxoId("T2", 0)}),
            o \in Owners, a \in {1, 2}}

----------------------------------------------------------------------------
(* The state machine                                                       *)
(*                                                                         *)
(* The engine is single-writer and synchronous: a call runs to its end and *)
(* hands its result to the caller before the next call starts.  A call     *)
(* step takes the engine from the state before the call to the state after *)
(* it and sets last; Return is the caller taking the result.               *)

Outcome(r) == IF r.ok THEN "ok" ELSE IF r.raised THEN "raised" ELSE "rejected"

\* The ids a call stored a UTXO under: every output's id when a MINT or
\* TRANSFER succeeds, the ids of the outputs before the one _create_utxo
\* raised on when it raises.
Created(tx, r) ==
    IF r.ok /\ tx.type \in {MINT, TRANSFER}
        THEN {UtxoId(tx.tx_id, i - 1) : i \in 1..Len(tx.outputs)}
    ELSE IF r.raised /\ r.msg = "TypeError"
        THEN {UtxoId(tx.tx_id, i - 1) :
                i \in {k \in 1..Len(tx.outputs) : \A j \in 1..k : ~CreateRaises(tx.outputs[j])}}
    ELSE {}

\* The history of an id after one more successful TRANSFER or BURN consumed it.
Again(count) == IF count = "never" THEN "once" ELSE "again"

NoCall == [op |-> "none"]
Idle == last.op = "none"

Init ==
    /\ utxos = EmptyDict
    /\ transactions = EmptyDict
    /\ total_supply = 0
    /\ verified_reserves = 0
    /\ kyc_registry = EmptyDict
    /\ blacklist = {}
    /\ daily_transfer_tracking = EmptyDict
    /\ today = "d0"
    /\ spend_count = [id \in UtxoIds |-> "never"]
    /\ commits = 0
    /\ frozen_ids = {}
    /\ last = NoCall

SetEngine(e) ==
    /\ utxos' = e.utxos
    /\ transactions' = e.transactions
    /\ total_supply' = e.total_supply
    /\ verified_reserves' = e.verified_reserves
    /\ kyc_registry' = e.kyc_registry
    /\ blacklist' = e.blacklist
    /\ daily_transfer_tracking' = e.daily_transfer_tracking

\* One call of process_transaction(tx) during which check_daily_limit reads
\* the date check_day from the wall clock and record_transfer, later, the date
\* record_day.  The model follows the engine until MaxCommits transactions
\* have succeeded.
CallAt(tx, check_day, record_day) ==
    /\ Idle
    /\ commits < MaxCommits
    /\ \E r \in {process_transaction(Engine, tx, check_day, record_day)} :
        /\ SetEngine(r.e)
        /\ spend_count' =
            IF r.ok /\ tx.type \in {TRANSFER, BURN}
            THEN [id \in UtxoIds |->
                    IF \E k \in 1..Len(tx.inputs) : tx.inputs[k] = id
                    THEN Again(spend_count[id]) ELSE spend_count[id]]
            ELSE spend_count
        /\ commits' = IF r.ok THEN commits + 1 ELSE commits
        /\ last' = [op |-> "process_transaction", tx |-> tx,
                    outcome |-> Outcome(r), msg |-> r.msg,
                    created |-> IF DOMAIN tx = TransactionFields THEN Created(tx, r) ELSE {}]
    /\ today' = record_day
    /\ UNCHANGED frozen_ids

\* One call of process_transaction(tx), with the wall clock at today.
Call(tx) == CallAt(tx, today, today)

Admin(op, arg, result) ==
    /\ Idle
    /\ \E r \in {result} :
        /\ SetEngine(r.e)
        /\ last' = [op |-> op, arg |-> arg, outcome |-> Outcome(r), msg |-> r.msg]
        /\ frozen_ids' = IF r.ok /\ op = "freeze_utxo" THEN frozen_ids \cup {arg}
                          ELSE IF r.ok /\ op = "unfreeze_utxo" THEN frozen_ids \ {arg}
                          ELSE frozen_ids
    /\ UNCHANGED <<today, spend_count, commits>>

IssuerCall == \E tx \in IssuerRequests : Call(tx)

PaymentCall == \E tx \in PaymentRequests : Call(tx)

SetVerifiedReserves ==
    \E amount \in 0..MaxReserves :
        Admin("set_verified_reserves", amount, Accept(set_verified_reserves(Engine, amount), ""))

FreezeUtxo ==
    \E utxo_id \in UtxoIds :
        Admin("freeze_utxo", utxo_id, freeze_utxo(Engine, utxo_id, "court order"))

UnfreezeUtxo ==
    \E utxo_id \in UtxoIds : Admin("unfreeze_utxo", utxo_id, unfreeze_utxo(Engine, utxo_id))

RegisterKyc ==
    \E owner_id \in Owners, kyc_level \in RegisteredLevels :
        Admin("register_kyc", owner_id, Accept(register_kyc(Engine, owner_id, kyc_level), ""))

BlacklistOwner ==
    \E owner_id \in Owners :
        Admin("blacklist_owner", owner_id, Accept(blacklist_owner(Engine, owner_id), ""))

\* The caller takes the result; the engine is idle again.
Return ==
    /\ ~Idle
    /\ last' = NoCall
    /\ UNCHANGED <<utxos, transactions, total_supply, verified_reserves, kyc_registry,
                   blacklist, daily_transfer_tracking, today, spend_count, commits,
                   frozen_ids>>

\* The issuer's desk with the admin operations on the ledger.
Next ==
    \/ IssuerCall
    \/ SetVerifiedReserves
    \/ FreezeUtxo
    \/ UnfreezeUtxo
    \/ Return

Spec == Init /\ [][Next]_vars

\* The issuer's desk without freeze_utxo and unfreeze_utxo.
NextTx ==
    \/ IssuerCall
    \/ SetVerifiedReserves
    \/ Return

SpecTx == Init /\ [][NextTx]_vars

\* The payments desk, with the reserves and the KYC registry set by the admin.
NextPay ==
    \/ PaymentCall
    \/ SetVerifiedReserves
    \/ RegisterKyc
    \/ BlacklistOwner
    \/ Return

SpecPay == Init /\ [][NextPay]_vars

CustodyCall == \E tx \in CustodyRequests : Call(tx)

\* The custody desk with the KYC registry and freeze_utxo / unfreeze_utxo.
NextCustody ==
    \/ CustodyCall
    \/ SetVerifiedReserves
    \/ RegisterKyc
    \/ FreezeUtxo
    \/ UnfreezeUtxo
    \/ Return

SpecCustody == Init /\ [][NextCustody]_vars

\* The signing desk: MINTs under T1 to either owner or to both, and TRANSFERs
\* under T2 of the UTXOs T1:0 and T1:1 to either owner, signed by any set of
\* the identities issuer, alice and bob.
Signers == Owners \cup {"issuer"}

SignRequests ==
    {Tx(MINT, "T1", <<>>, <<Output(o, 1)>>, "POLICY_V1.0", {"issuer"}) : o \in Owners}
    \cup {Tx(MINT, "T1", <<>>, <<Output("alice", 1), Output("bob", 1)>>, "POLICY_V1.0", {"issuer"})}
    \cup {Tx(TRANSFER, "T2", ins, <<Output(o, a)>>, "POLICY_V1.0", signers) :
            ins \in InputListsOver({UtxoId("T1", 0), UtxoId("T1", 1)}),
            o \in Owners, a \in {1, 2}, signers \in SUBSET Signers}

SignCall == \E tx \in SignRequests : Call(tx)

\* The signing desk with the reserves and the KYC registry set by the admin.
NextSign ==
    \/ SignCall
    \/ SetVerifiedReserves
    \/ RegisterKyc
    \/ Return

SpecSign == Init /\ [][NextSign]_vars

\* The compliance desk: MINTs under T1 to alice, one of them of an output
\* whose metadata has blacklist_flag set, and TRANSFERs under T2 of the UTXOs
\* T1:0 and T2:0 to either owner, signed by both owners or by bob alone, one
\* of them to bob with an output specification that lacks the amount.
FlaggedOutput == [Output("alice", 1) EXCEPT !.metadata.blacklist_flag = TRUE]
AmountlessOutput == [f \in RequiredOutputFields \ {"amount"} |-> Output("bob", 1)[f]]

ComplianceRequests ==
    {Tx(MINT, "T1", <<>>, <<Output("alice", a)>>, "POLICY_V1.0", {"issuer"}) : a \in {1, 2}}
    \cup {Tx(MINT, "T1", <<>>, <<FlaggedOutput>>, "POLICY_V1.0", {"issuer"})}
    \cup {Tx(TRANSFER, "T2", ins, <<Output(o, a)>>, "POLICY_V1.0", signers) :
            ins \in InputListsOver({UtxoId("T1", 0), UtxoId("T2", 0)}),
            o \in Owners, a \in {1, 2}, signers \in {Owners, {"bob"}}}
    \cup {Tx(TRANSFER, "T2", <<UtxoId("T1", 0)>>, <<AmountlessOutput>>, "POLICY_V1.0", Owners)}

ComplianceCall == \E tx \in ComplianceRequests : Call(tx)

\* The compliance desk with the reserves, the KYC registry and the blacklist
\* set by the admin.
NextCompliance ==
    \/ ComplianceCall
    \/ SetVerifiedReserves
    \/ RegisterKyc
    \/ BlacklistOwner
    \/ Return

SpecCompliance == Init /\ [][NextCompliance]_vars

\* The teller's desk over two UTC days: MINTs under T1 to either owner,
\* TRANSFERs under T2 of the UTXOs T1:0 and T2:0 to either owner or to bob
\* with change to alice, signed by both owners.  alice is a level-1 customer
\* and bob a level-2 customer.  Midnight may pass during a call, between the
\* clock reading of check_daily_limit and that of record_transfer.
Days == {"d0", "d1"}
DaysFrom(day) == IF day = "d0" THEN Days ELSE {"d1"}
CustomerLevel == [o \in Owners |-> IF o = "alice" THEN LEVEL_1 ELSE LEVEL_2]

TellerRequests ==
    {Tx(MINT, "T1", <<>>, <<Output(o, a)>>, "POLICY_V1.0", {"issuer"}) :
        o \in Owners, a \in {1, 2}}
    \cup {Tx(TRANSFER, "T2", ins, outs, "POLICY_V1.0", Owners) :
            ins \in InputListsOver({UtxoId("T1", 0), UtxoId("T2", 0)}),
            outs \in {<<Output(o, a)>> : o \in Owners, a \in {1, 2}}
                      \cup {<<Output("bob", 1), Output("alice", 1)>>}}

TellerCall ==
    \E tx \in TellerRequests, record_day \in DaysFrom(today) : CallAt(tx, today, record_day)

RegisterCustomer ==
    \E owner_id \in Owners :
        Admin("register_kyc", owner_id,
              Accept(register_kyc(Engine, owner_id, CustomerLevel[owner_id]), ""))

NextTeller ==
    \/ TellerCall
    \/ SetVerifiedReserves
    \/ RegisterCustomer
    \/ Return

SpecTeller == Init /\ [][NextTeller]_vars

\* The admin desk: MINTs to alice under either tx_id and BURNs of the UTXO
\* T1:0 or T2:0 by the issuer, with freeze_utxo for either of two reasons and
\* unfreeze_utxo on any id.
FreezeReasons == {"court order", "audit"}

AdminRequests ==
    {Tx(MINT, t, <<>>, <<Output("alice", a)>>, "POLICY_V1.0", {"issuer"}) :
        t \in TxIds, a \in {1, 2}}
    \cup {Tx(BURN, "T2", <<UtxoId(t, 0)>>, <<>>, "POLICY_V1.0", {"issuer"}) : t \in TxIds}

AdminCall == \E tx \in AdminRequests : Call(tx)

FreezeFor ==
    \E utxo_id \in UtxoIds, reason \in FreezeReasons :
        /\ Idle
        /\ \E r \in {freeze_utxo(Engine, utxo_id, reason)} :
            /\ SetEngine(r.e)
            /\ last' = [op |-> "freeze_utxo", arg |-> utxo_id, reason |-> reason,
                        outcome |-> Outcome(r), msg |-> r.msg]
            /\ frozen_ids' = IF r.ok THEN frozen_ids \cup {utxo_id} ELSE frozen_ids
        /\ UNCHANGED <<today, spend_count, commits>>

NextAdmin ==
    \/ AdminCall
    \/ SetVerifiedReserves
    \/ FreezeFor
    \/ UnfreezeUtxo
    \/ Return

SpecAdmin == Init /\ [][NextAdmin]_vars

\* GENUSDEngine(): a new engine.
NewEngine ==
    [utxos |-> EmptyDict, transactions |-> EmptyDict, total_supply |-> 0,
     verified_reserves |-> 0, kyc_registry |-> EmptyDict, blacklist |-> {},
     daily_transfer_tracking |-> EmptyDict]

\* The engine's export_state is imported into the engine itself, or the
\* running engine is replaced by a new engine that imports it.
Restore ==
    \E target \in {Engine, NewEngine} :
        Admin("import_state", "snapshot", import_state(target, export_state(Engine)))

\* The custody desk with snapshots.
NextSnapshot ==
    \/ CustodyCall
    \/ SetVerifiedReserves
    \/ RegisterKyc
    \/ FreezeUtxo
    \/ UnfreezeUtxo
    \/ Restore
    \/ Return

SpecSnapshot == Init /\ [][NextSnapshot]_vars

\* The redemption desk: MINTs under T1 to either owner or to both, and BURNs
\* under T2 of the UTXOs T1:0 and T1:1 signed by any set of the identities
\* issuer, alice and bob.
RedemptionRequests ==
    {Tx(MINT, "T1", <<>>, <<Output(o, a)>>, "POLICY_V1.0", {"issuer"}) :
        o \in Owners, a \in {1, 2}}
    \cup {Tx(MINT, "T1", <<>>, <<Output("alice", 1), Output("bob", 1)>>, "POLICY_V1.0", {"issuer"})}
    \cup {Tx(BURN, "T2", ins, <<>>, "POLICY_V1.0", signers) :
            ins \in InputListsOver({UtxoId("T1", 0), UtxoId("T1", 1)}),
            signers \in SUBSET Signers}

RedemptionCall == \E tx \in RedemptionRequests : Call(tx)

NextRedemption ==
    \/ RedemptionCall
    \/ SetVerifiedReserves
    \/ Return

SpecRedemption == Init /\ [][NextRedemption]_vars

\* The mint desk: reserves large enough for a MINT above the policy's
\* max_mint_per_tx, MINTs under either tx_id of one output just below, at and
\* above that maximum or of two outputs that exceed it together, and BURNs
\* under T2 of the minted UTXOs by the issuer.
VaultReserves == max_mint_per_tx + MaxReserves

MintRequests ==
    {Tx(MINT, t, <<>>, <<Output("alice", a)>>, "POLICY_V1.0", {"issuer"}) :
        t \in TxIds, a \in {1, max_mint_per_tx - 1, max_mint_per_tx, max_mint_per_tx + 1}}
    \cup {Tx(MINT, "T1", <<>>, <<Output("alice", max_mint_per_tx), Output("bob", 1)>>,
              "POLICY_V1.0", {"issuer"})}
    \cup {Tx(BURN, "T2", <<UtxoId(t, 0)>>, <<>>, "POLICY_V1.0", {"issuer"}) : t \in TxIds}

MintCall == \E tx \in MintRequests : Call(tx)

SetVaultReserves ==
    \E amount \in {0, MaxReserves, VaultReserves} :
        Admin("set_verified_reserves", amount, Accept(set_verified_reserves(Engine, amount), ""))

NextMint ==
    \/ MintCall
    \/ SetVaultReserves
    \/ Return

SpecMint == Init /\ [][NextMint]_vars

\* The policy desk: MINTs under T1 and BURNs under T2 that name the registered
\* policy version or an unregistered one, signed by the issuer or by alice
\* alone, one MINT's output specification without the amount, and TRANSFERs
\* under T2 of the UTXO T1:0 to bob under either policy name, signed by both
\* owners.
PolicyRefs == {"POLICY_V1.0", "POLICY_V0.9"}

PolicyRequests ==
    {Tx(MINT, "T1", <<>>, <<Output("alice", a)>>, ref, signers) :
        a \in {1, 2}, ref \in PolicyRefs, signers \in {{"issuer"}, {"alice"}}}
    \cup {Tx(MINT, "T1", <<>>, <<AmountlessOutput>>, "POLICY_V0.9", {"issuer"})}
    \cup {Tx(BURN, "T2", ins, <<>>, ref, signers) :
            ins \in InputListsOver({UtxoId("T1", 0), UtxoId("T2", 0)}),
            ref \in PolicyRefs, signers \in {{"issuer"}, {"alice"}, {"bob"}}}
    \cup {Tx(TRANSFER, "T2", <<UtxoId("T1", 0)>>, <<Output("bob", a)>>, ref, Owners) :
            a \in {1, 2}, ref \in PolicyRefs}

PolicyCall == \E tx \in PolicyRequests : Call(tx)

NextPolicy ==
    \/ PolicyCall
    \/ SetVerifiedReserves
    \/ RegisterKyc
    \/ Return

SpecPolicy == Init /\ [][NextPolicy]_vars

\* The tier desk: reserves that back two large UTXOs, MINTs to alice under
\* either tx_id, TRANSFERs under T3 of the UTXOs T1:0 and T2:0 to bob in one
\* or two outputs, signed by both owners, and BURNs of T1:0 by the issuer.
\* The owners are registered at the lowest or at the highest KYC level, or
\* not at all.
TierReserves == MAX_UTXO_AMOUNT
TierLevels == {LEVEL_0, LEVEL_3}
TierAmounts == {1, LIMIT_LEVEL_3 \div 2, LIMIT_LEVEL_3 \div 2 + 1}

TierRequests ==
    {Tx(MINT, t, <<>>, <<Output("alice", a)>>, "POLICY_V1.0", {"issuer"}) :
        t \in TxIds, a \in TierAmounts}
    \cup {Tx(TRANSFER, "T3", ins, outs, "POLICY_V1.0", Owners) :
            ins \in InputListsOver({UtxoId("T1", 0), UtxoId("T2", 0)}),
            outs \in {<<Output("bob", a)>> : a \in TierAmounts}
                      \cup {<<Output("bob", LIMIT_LEVEL_3 \div 2 + 1), Output("bob", LIMIT_LEVEL_3 \div 2)>>}}
    \cup {Tx(BURN, "T3", <<UtxoId("T1", 0)>>, <<>>, "POLICY_V1.0", {"issuer"})}

TierCall == \E tx \in TierRequests : Call(tx)

SetTierReserves ==
    \E amount \in {0, TierReserves} :
        Admin("set_verified_reserves", amount, Accept(set_verified_reserves(Engine, amount), ""))

RegisterTier ==
    \E owner_id \in Owners, kyc_level \in TierLevels :
        Admin("register_kyc", owner_id, Accept(register_kyc(Engine, owner_id, kyc_level), ""))

NextTier ==
    \/ TierCall
    \/ SetTierReserves
    \/ RegisterTier
    \/ Return

SpecTier == Init /\ [][NextTier]_vars

\* The reserve desk: MINTs to alice under T1, TRANSFERs of T1:0 to bob and
\* BURNs of T1:0 by the issuer under T2, with the reserves set to any level,
\* the KYC registry, and freeze_utxo / unfreeze_utxo.
ReserveRequests ==
    {Tx(MINT, "T1", <<>>, <<Output("alice", a)>>, "POLICY_V1.0", {"issuer"}) : a \in {1, 2}}
    \cup {Tx(TRANSFER, "T2", <<UtxoId("T1", 0)>>, <<Output("bob", a)>>, "POLICY_V1.0", Owners) :
            a \in {1, 2}}
    \cup {Tx(BURN, "T2", <<UtxoId("T1", 0)>>, <<>>, "POLICY_V1.0", {"issuer"})}

ReserveCall == \E tx \in ReserveRequests : Call(tx)

NextReserve ==
    \/ ReserveCall
    \/ SetVerifiedReserves
    \/ RegisterKyc
    \/ FreezeUtxo
    \/ UnfreezeUtxo
    \/ Return

SpecReserve == Init /\ [][NextReserve]_vars

\* A caller that never reuses a logged tx_id, never lists an input twice and
\* sends complete metadata records.
Careful(tx) ==
    /\ DOMAIN tx = TransactionFields
    /\ tx.tx_id \notin DOMAIN transactions
    /\ \A i, j \in 1..Len(tx.inputs) : tx.inputs[i] = tx.inputs[j] => i = j
    /\ \A i \in 1..Len(tx.outputs) :
          "metadata" \in DOMAIN tx.outputs[i] => DOMAIN tx.outputs[i].metadata = UTXOMetadataFields

CarefulCall == \E tx \in IssuerRequests : Careful(tx) /\ Call(tx)

NextCareful ==
    \/ CarefulCall
    \/ SetVerifiedReserves
    \/ FreezeUtxo
    \/ UnfreezeUtxo
    \/ Return

SpecCareful == Init /\ [][NextCareful]_vars

----------------------------------------------------------------------------
(* Properties                                                              *)

\* sum of the amounts of the UTXOs of us with status Active
ActiveSumOf(us) == SumAmounts(us, {i \in DOMAIN us : us[i].status = ACTIVE})
ActiveSum == ActiveSumOf(utxos)

\* l is the result of a process_transaction call on a record of the given type.
IsTx(l, type) ==
    /\ l.op = "process_transaction"
    /\ DOMAIN l.tx = TransactionFields
    /\ l.tx.type = type

LedgerUnchanged == UNCHANGED <<utxos, transactions, total_supply, verified_reserves>>

\* C1. Conservation: after any sequence of process_transaction calls from an
\* empty engine, total_supply is the sum of the amounts of the Active UTXOs.
C1_Conservation == total_supply = ActiveSum

\* C2. Engine invariant 1 under admin interleaving: after every successfully
\* committed transaction, also when freeze_utxo / unfreeze_utxo calls came
\* earlier, total_supply is the sum of the amounts of the Active UTXOs.
C2_SupplyIsActiveSumAtCommit ==
    (last.op = "process_transaction" /\ last.outcome = "ok") => total_supply = ActiveSum

\* C3. No double spend: an id consumed by a successful TRANSFER or BURN is
\* never consumed by a later successful TRANSFER or BURN (every later one that
\* lists it is rejected).
C3_NoDoubleSpend == \A id \in UtxoIds : spend_count[id] # "again"

\* C4. Spent is terminal: a ledger entry with status Spent has status Spent
\* in every later state.
C4_SpentIsTerminal ==
    [][\A id \in DOMAIN utxos :
          utxos[id].status = SPENT => (id \in DOMAIN utxos' /\ utxos'[id].status = SPENT)]_vars

\* C5. Reserve ceiling at MINT: a MINT with total_supply + total_mint above
\* verified_reserves is rejected and changes no state, whatever the excess; a
\* MINT with total_supply + total_mint equal to verified_reserves is not
\* rejected by the reserve check.
C5_ReserveCeilingAtMint ==
    [][(IsTx(last', MINT) /\ ~OutputSumRaises(last'.tx.outputs)) =>
          LET total_mint == OutputSum(last'.tx.outputs)
          IN /\ total_supply + total_mint > verified_reserves =>
                    (last'.outcome = "rejected"
                     /\ LedgerUnchanged
                     /\ UNCHANGED <<kyc_registry, blacklist, daily_transfer_tracking>>)
             /\ total_supply + total_mint = verified_reserves =>
                    last'.msg # "Insufficient reserves"]_vars

\* A MINT rejected by the reserve check for an excess of one unit.
C5_Witness ==
    /\ IsTx(last, MINT)
    /\ last.msg = "Insufficient reserves"
    /\ total_supply + OutputSum(last.tx.outputs) = verified_reserves + 1

\* C6, as claimed. Reserve backing: total_supply <= verified_reserves in every reachable state.
C6_ReserveBacking == total_supply <= verified_reserves

\* C6, amended. total_supply <= verified_reserves holds after every successful
\* MINT, and every call other than set_verified_reserves keeps it.
C6_ReserveBackingAfterMint ==
    /\ []((IsTx(last, MINT) /\ last.outcome = "ok") => total_supply <= verified_reserves)
    /\ [][(last'.op # "set_verified_reserves" /\ total_supply <= verified_reserves)
            => total_supply' <= verified_reserves']_vars

\* A successful MINT on top of a supply in circulation that fills the reserves.
C6_Witness ==
    /\ IsTx(last, MINT)
    /\ last.outcome = "ok"
    /\ total_supply > OutputSum(last.tx.outputs)
    /\ total_supply = verified_reserves

\* C7. Unique UTXO ids: a UTXO created by a transaction gets an id under which
\* the ledger holds no entry yet.
C7_UniqueUtxoIds ==
    [][last'.op = "process_transaction" => last'.created \cap DOMAIN utxos = {}]_vars

\* C8. TRANSFER conserves value: a successful TRANSFER, whatever its input
\* list, leaves total_supply and the sum of the Active amounts as they were.
C8_TransferConservesValue ==
    [][(IsTx(last', TRANSFER) /\ last'.outcome = "ok") =>
          /\ total_supply' = total_supply
          /\ ActiveSumOf(utxos') = ActiveSumOf(utxos)]_vars

\* C9. Rejected transactions do not mutate the ledger: a process_transaction
\* call that returns success = false leaves the UTXO map, total_supply,
\* verified_reserves, the transaction log and every balance as they were.
C9_RejectedCallsChangeNothing ==
    [][(last'.op = "process_transaction" /\ last'.outcome = "rejected") =>
          /\ LedgerUnchanged
          /\ \A owner_id \in Owners : get_balance(Engine', owner_id) = get_balance(Engine, owner_id)]_vars

\* A TRANSFER to a recipient without KYC registration, rejected on a ledger
\* that holds the sender's funds.
C9_Witness ==
    /\ IsTx(last, TRANSFER)
    /\ last.outcome = "rejected"
    /\ last.msg = "Recipient has no KYC registration"
    /\ \E owner_id \in Owners : get_balance(Engine, owner_id) > 0

\* the TRANSFER or BURN l lists id among its inputs
Lists(l, id) ==
    /\ (IsTx(l, TRANSFER) \/ IsTx(l, BURN))
    /\ \E k \in 1..Len(l.tx.inputs) : l.tx.inputs[k] = id

HasStatus(us, id, status) == id \in DOMAIN us /\ us[id].status = status

\* C11. Frozen UTXOs cannot be consumed: a TRANSFER or BURN that lists a Frozen
\* UTXO is rejected and the UTXO stays Frozen, and no id that freeze_utxo froze
\* becomes Spent before unfreeze_utxo has unfrozen it.
C11_FrozenNotConsumed ==
    [][/\ \A id \in UtxoIds :
            (HasStatus(utxos, id, FROZEN) /\ Lists(last', id)) =>
                (last'.outcome = "rejected" /\ HasStatus(utxos', id, FROZEN))
       /\ \A id \in frozen_ids :
            ~(~HasStatus(utxos, id, SPENT) /\ HasStatus(utxos', id, SPENT))]_vars

\* the step is a successful freeze_utxo of a UTXO that was Active
FreezesActive ==
    /\ last'.op = "freeze_utxo"
    /\ last'.outcome = "ok"
    /\ HasStatus(utxos, last'.arg, ACTIVE)

\* the TRANSFERs of the custody desk that list id and succeed on engine state e
SpendableBy(e, id) ==
    {tx \in CustodyRequests :
        /\ tx.type = TRANSFER
        /\ \E k \in 1..Len(tx.inputs) : tx.inputs[k] = id
        /\ process_transaction(e, tx, today, today).ok}

\* C12, as claimed. Freeze/unfreeze round trip: freeze_utxo of an Active UTXO
\* followed by unfreeze_utxo restores exactly the engine state before the
\* freeze, and a TRANSFER that succeeded before the freeze is rejected while
\* frozen and succeeds after the unfreeze.
C12_RoundTripRestoresState ==
    [][FreezesActive =>
          LET thawed == unfreeze_utxo(Engine', last'.arg)
          IN /\ thawed.ok
             /\ thawed.e = Engine
             /\ \A tx \in SpendableBy(Engine, last'.arg) :
                    /\ process_transaction(Engine', tx, today, today).msg = "Input UTXO is not active"
                    /\ process_transaction(thawed.e, tx, today, today).ok]_vars

\* C12, amended. freeze_utxo of an Active UTXO followed by unfreeze_utxo leaves
\* the UTXO Active with freeze_reason None and everything else as before the
\* freeze (the state before it exactly when the reason was None then), and a
\* TRANSFER that succeeded before the freeze is rejected while frozen and
\* succeeds after the unfreeze.
C12_RoundTripClearsReason ==
    [][FreezesActive =>
          LET thawed == unfreeze_utxo(Engine', last'.arg)
          IN /\ thawed.ok
             /\ thawed.e = [Engine EXCEPT !.utxos[last'.arg].metadata.freeze_reason = None]
             /\ \A tx \in SpendableBy(Engine, last'.arg) :
                    /\ process_transaction(Engine', tx, today, today).msg = "Input UTXO is not active"
                    /\ process_transaction(thawed.e, tx, today, today).ok]_vars

\* freeze_utxo has frozen a UTXO that a TRANSFER of the desk could spend: the
\* TRANSFER is rejected now and succeeds once the UTXO is unfrozen.
C12_Witness ==
    /\ last.op = "freeze_utxo"
    /\ last.outcome = "ok"
    /\ HasStatus(utxos, last.arg, FROZEN)
    /\ utxos[last.arg].metadata.freeze_reason = "court order"
    /\ SpendableBy(Engine, last.arg) = {}
    /\ SpendableBy(unfreeze_utxo(Engine, last.arg).e, last.arg) # {}

\* The validation step of TRANSFER (1 schema .. 8 daily limit) a rejection
\* message belongs to.
StepOf(msg) ==
    IF msg \in {"TRANSFER transaction must have at least one input",
                "TRANSFER transaction must have at least one output"} THEN 1
    ELSE IF msg \in {"Input UTXO not found", "Input UTXO is not active"} THEN 2
    ELSE IF msg = "All input UTXOs must belong to the same owner" THEN 3
    ELSE IF msg = "Missing signature from owner" THEN 4
    ELSE IF msg \in {"Input UTXO belongs to blacklisted owner", "Owner is blacklisted"} THEN 5
    ELSE IF msg = "Input sum != Output sum" THEN 6
    ELSE IF msg \in {"has no KYC registration", "Daily limit exceeded"} THEN 8
    ELSE 7

\* The TRANSFER tx breaks the rule of validation step k on engine state e.
\* The rules are read off the ledger: a rule on the inputs speaks of the
\* listed ids that the ledger holds, the sender is the owner of the first one.
Violates(e, tx, k) ==
    LET present == {i \in 1..Len(tx.inputs) : tx.inputs[i] \in DOMAIN e.utxos}
        held(i) == e.utxos[tx.inputs[i]]
        input_sum == SumSeq([i \in 1..Len(tx.inputs) |->
                                IF i \in present THEN held(i).amount ELSE 0])
        outs == 1..Len(tx.outputs)
    IN CASE k = 1 -> tx.inputs = <<>> \/ tx.outputs = <<>>
         [] k = 2 -> \E i \in 1..Len(tx.inputs) : i \notin present \/ held(i).status # ACTIVE
         [] k = 3 -> Cardinality({held(i).owner_id : i \in present}) > 1
         [] k = 4 -> 1 \in present /\ held(1).owner_id \notin DOMAIN tx.signatures
         [] k = 5 -> \E i \in present :
                        held(i).metadata.blacklist_flag \/ held(i).owner_id \in e.blacklist
         [] k = 6 -> OutputSumRaises(tx.outputs) \/ input_sum # OutputSum(tx.outputs)
         [] k = 7 -> \E i \in outs :
                        \/ _validate_output(tx.outputs[i]) # ""
                        \/ tx.outputs[i].owner_id \notin DOMAIN e.kyc_registry
                        \/ tx.outputs[i].owner_id \in e.blacklist
         [] k = 8 -> /\ 1 \in present
                     /\ ~OutputSumRaises(tx.outputs)
                     /\ \/ held(1).owner_id \notin DOMAIN e.kyc_registry
                        \/ UsedOn(e.daily_transfer_tracking, held(1).owner_id, today)
                                + OutputSum(tx.outputs)
                            > KYC_DAILY_LIMITS[e.kyc_registry[held(1).owner_id]]

\* C13. TRANSFER check order: a rejected TRANSFER reports a reason of the
\* earliest validation step it violates, in the order schema, inputs, single
\* owner, sender signature, blacklist, conservation, outputs and recipient
\* KYC, daily limit: the step of the reported reason is violated and no
\* earlier step is.
C13_TransferCheckOrder ==
    [][(IsTx(last', TRANSFER) /\ last'.outcome = "rejected") =>
          /\ Violates(Engine, last'.tx, StepOf(last'.msg))
          /\ \A j \in 1..(StepOf(last'.msg) - 1) : ~Violates(Engine, last'.tx, j)]_vars

\* A TRANSFER rejected for the missing sender signature that also breaks the
\* conservation rule and names an unregistered recipient.
C13_Witness ==
    /\ IsTx(last, TRANSFER)
    /\ last.msg = "Missing signature from owner"
    /\ Violates(Engine, last.tx, 6)
    /\ Violates(Engine, last.tx, 7)

\* sum of the amounts of the outputs addressed to owner_id
PaidTo(outputs, owner_id) ==
    SumSeq([i \in 1..Len(outputs) |->
               IF outputs[i].owner_id = owner_id THEN outputs[i].amount ELSE 0])

\* C14. Effect of a successful MINT with n outputs: exactly n new ledger
\* entries tx_id:0 .. tx_id:(n-1), each Active with the owner and amount of
\* its output and created_at the transaction timestamp; total_supply grows by
\* the sum of the output amounts; each owner's balance grows by the outputs
\* addressed to them; the transaction is in the log; no UTXO that existed
\* before changes.
C14_MintEffect ==
    [][(IsTx(last', MINT) /\ last'.outcome = "ok") =>
          LET tx == last'.tx
              n == Len(tx.outputs)
          IN /\ DOMAIN utxos' \ DOMAIN utxos = {UtxoId(tx.tx_id, i - 1) : i \in 1..n}
             /\ \A i \in 1..n :
                   LET utxo == utxos'[UtxoId(tx.tx_id, i - 1)]
                   IN /\ utxo.status = ACTIVE
                      /\ utxo.owner_id = tx.outputs[i].owner_id
                      /\ utxo.amount = tx.outputs[i].amount
                      /\ utxo.created_at = tx.timestamp
             /\ total_supply' = total_supply + OutputSum(tx.outputs)
             /\ \A o \in Owners :
                   get_balance(Engine', o) = get_balance(Engine, o) + PaidTo(tx.outputs, o)
             /\ tx.tx_id \in DOMAIN transactions'
             /\ \A id \in DOMAIN utxos : utxos'[id] = utxos[id]]_vars

\* sum of the amounts, in ledger us, of the UTXOs of owner_id among the ids
\* listed in inputs, each UTXO counted once
ConsumedFrom(us, inputs, owner_id) ==
    SumAmounts(us, {inputs[i] : i \in {j \in 1..Len(inputs) : us[inputs[j]].owner_id = owner_id}})

\* C15. Effect of a successful TRANSFER on balances: every input is Spent
\* afterwards, and for every owner the balance after is the balance before
\* minus the amounts of that owner's consumed inputs plus the amounts of the
\* outputs addressed to them (so the balance of an owner who is neither
\* sender nor recipient is unchanged).
C15_TransferEffect ==
    [][(IsTx(last', TRANSFER) /\ last'.outcome = "ok") =>
          LET tx == last'.tx
          IN /\ \A i \in 1..Len(tx.inputs) : utxos'[tx.inputs[i]].status = SPENT
             /\ \A o \in Owners \cup {"issuer"} :
                   get_balance(Engine', o) =
                       get_balance(Engine, o) - ConsumedFrom(utxos, tx.inputs, o)
                           + PaidTo(tx.outputs, o)]_vars

\* C16. Effect of a successful BURN: every input is Spent afterwards, no
\* UTXO is created, total_supply decreases by exactly the sum of the amounts
\* of the UTXOs the BURN marked Spent, and the transaction is in the log.
C16_BurnEffect ==
    [][(IsTx(last', BURN) /\ last'.outcome = "ok") =>
          LET tx == last'.tx
              marked == {id \in DOMAIN utxos :
                            utxos[id].status # SPENT /\ utxos'[id].status = SPENT}
          IN /\ \A i \in 1..Len(tx.inputs) : utxos'[tx.inputs[i]].status = SPENT
             /\ DOMAIN utxos' = DOMAIN utxos
             /\ total_supply' = total_supply - SumAmounts(utxos, marked)
             /\ tx.tx_id \in DOMAIN transactions']_vars

\* sum of the amounts, in ledger us, of the ids listed in inputs, in list order
ListedAmount(us, inputs) == SumSeq([i \in 1..Len(inputs) |-> us[inputs[i]].amount])

\* C17. Minimum burn: a BURN whose inputs are all Active and authorized (by
\* the issuer or by an owner of an input), with a known policy, is rejected
\* when the total of its input amounts is strictly below the policy's
\* min_burn_amount, and then its inputs stay Active and total_supply is
\* unchanged; when the total equals min_burn_amount the minimum check does not
\* reject it, and it succeeds if its outputs are empty.
C17_MinimumBurn ==
    [][LET tx == last'.tx
           total == ListedAmount(utxos, tx.inputs)
           minimum == policies[tx.policy_ref].min_burn_amount
       IN (/\ IsTx(last', BURN)
           /\ tx.inputs # <<>>
           /\ \A i \in 1..Len(tx.inputs) : HasStatus(utxos, tx.inputs[i], ACTIVE)
           /\ \/ "issuer" \in DOMAIN tx.signatures
              \/ \E i \in 1..Len(tx.inputs) :
                     utxos[tx.inputs[i]].owner_id \in DOMAIN tx.signatures
           /\ tx.policy_ref \in DOMAIN policies) =>
              /\ total < minimum =>
                    /\ last'.outcome = "rejected"
                    /\ \A i \in 1..Len(tx.inputs) : HasStatus(utxos', tx.inputs[i], ACTIVE)
                    /\ total_supply' = total_supply
              /\ total = minimum =>
                    /\ last'.msg # "Burn amount below minimum"
                    /\ tx.outputs = <<>> => last'.outcome = "ok"]_vars

\* A BURN has just been rejected for an amount below the minimum, and the log
\* holds an earlier BURN of an input of exactly min_burn_amount.
C17_Witness ==
    /\ IsTx(last, BURN)
    /\ last.msg = "Burn amount below minimum"
    /\ \E t \in DOMAIN transactions :
          /\ transactions[t].type = BURN
          /\ Len(transactions[t].inputs) = 1
          /\ ListedAmount(utxos, transactions[t].inputs)
                 = policies[transactions[t].policy_ref].min_burn_amount

\* C18. MINT is issuer-only: no MINT succeeds unless "issuer" is a key of its
\* signatures, and total_supply never increases by a transaction whose
\* signatures lack the key "issuer".
C18_MintIssuerOnly ==
    [][last'.op = "process_transaction" =>
          LET signed == /\ "signatures" \in DOMAIN last'.tx
                        /\ "issuer" \in DOMAIN last'.tx.signatures
          IN /\ (IsTx(last', MINT) /\ last'.outcome = "ok") => signed
             /\ total_supply' > total_supply => signed]_vars

\* A MINT signed by alice alone, within the reserves, has been rejected for
\* the missing issuer signature.
C18_Witness ==
    /\ IsTx(last, MINT)
    /\ DOMAIN last.tx.signatures = {"alice"}
    /\ last.msg = "MINT requires issuer signature"
    /\ total_supply + OutputSum(last.tx.outputs) <= verified_reserves

\* C19. TRANSFER needs the sender's key: a TRANSFER succeeds only if the
\* owner of each of its input UTXOs is a key of its signatures; a TRANSFER
\* with an input whose owner has not signed, whoever else has (the issuer, a
\* recipient), is rejected and its Active inputs stay Active.
C19_TransferNeedsSenderKey ==
    [][IsTx(last', TRANSFER) =>
          LET tx == last'.tx
              held == {i \in 1..Len(tx.inputs) : tx.inputs[i] \in DOMAIN utxos}
              unsigned == \E i \in held :
                              utxos[tx.inputs[i]].owner_id \notin DOMAIN tx.signatures
          IN /\ last'.outcome = "ok" => (held = 1..Len(tx.inputs) /\ ~unsigned)
             /\ unsigned =>
                   /\ last'.outcome = "rejected"
                   /\ \A i \in held : HasStatus(utxos, tx.inputs[i], ACTIVE) =>
                                          HasStatus(utxos', tx.inputs[i], ACTIVE)]_vars

\* A TRANSFER of alice's Active UTXO to bob, signed by the issuer and by bob,
\* has been rejected for the missing signature; it breaks no other rule.
C19_Witness ==
    /\ IsTx(last, TRANSFER)
    /\ last.msg = "Missing signature from owner"
    /\ DOMAIN last.tx.signatures = {"issuer", "bob"}
    /\ last.tx.outputs[1].owner_id = "bob"
    /\ \A i \in 1..Len(last.tx.inputs) :
          /\ HasStatus(utxos, last.tx.inputs[i], ACTIVE)
          /\ utxos[last.tx.inputs[i]].owner_id = "alice"
    /\ \A k \in (1..8) \ {4} : ~Violates(Engine, last.tx, k)

\* C20. Single-owner TRANSFER: a TRANSFER whose input UTXOs do not all have
\* the same owner is rejected; every successful TRANSFER marks Spent only
\* UTXOs of one owner, and that owner's key is among its signatures.
C20_SingleOwnerTransfer ==
    [][IsTx(last', TRANSFER) =>
          LET tx == last'.tx
              held == {i \in 1..Len(tx.inputs) : tx.inputs[i] \in DOMAIN utxos}
              marked == {id \in DOMAIN utxos :
                            utxos[id].status # SPENT /\ utxos'[id].status = SPENT}
          IN /\ Cardinality({utxos[tx.inputs[i]].owner_id : i \in held}) > 1 =>
                   (last'.outcome = "rejected" /\ marked = {})
             /\ last'.outcome = "ok" =>
                   \E o \in DOMAIN tx.signatures :
                       /\ \A i \in 1..Len(tx.inputs) : utxos[tx.inputs[i]].owner_id = o
                       /\ \A id \in marked : utxos[id].owner_id = o]_vars

\* A TRANSFER of alice's and bob's Active UTXOs, signed by both and breaking
\* no other rule, has been rejected for the mixed owners.
C20_Witness ==
    /\ IsTx(last, TRANSFER)
    /\ last.msg = "All input UTXOs must belong to the same owner"
    /\ {"alice", "bob"} \subseteq DOMAIN last.tx.signatures
    /\ \A k \in (1..8) \ {3} : ~Violates(Engine, last.tx, k)

BlacklistMessages == {"Input UTXO belongs to blacklisted owner", "Owner is blacklisted"}

\* The TRANSFER tx lists a UTXO of ledger e.utxos whose blacklist_flag is set
\* or whose owner is on the registry blacklist.
BlacklistedInput(e, tx) ==
    \E i \in 1..Len(tx.inputs) :
        /\ tx.inputs[i] \in DOMAIN e.utxos
        /\ \/ e.utxos[tx.inputs[i]].metadata.blacklist_flag
           \/ e.utxos[tx.inputs[i]].owner_id \in e.blacklist

\* The statuses of the listed inputs are as before the step.
InputsKeepStatus(tx) ==
    \A i \in 1..Len(tx.inputs) :
        tx.inputs[i] \in DOMAIN utxos =>
            (tx.inputs[i] \in DOMAIN utxos' /\ utxos'[tx.inputs[i]].status = utxos[tx.inputs[i]].status)

\* C21. Blacklisted senders cannot transfer: every TRANSFER with an input
\* whose owner is on the registry blacklist, or whose metadata blacklist_flag
\* is set, is rejected with a blacklist error, and its inputs remain Active.
C21_BlacklistedRejectedWithBlacklistError ==
    [][(IsTx(last', TRANSFER) /\ BlacklistedInput(Engine, last'.tx)) =>
          /\ last'.outcome = "rejected"
          /\ last'.msg \in BlacklistMessages
          /\ InputsKeepStatus(last'.tx)]_vars

\* C21 (amended). Every TRANSFER with an input whose owner is on the registry
\* blacklist, or whose blacklist_flag is set, is rejected and its inputs keep
\* their status; the reason is a blacklist error when the TRANSFER passes the
\* earlier steps (schema, inputs Active, single owner, sender signature).
C21_BlacklistedRejected ==
    [][(IsTx(last', TRANSFER) /\ BlacklistedInput(Engine, last'.tx)) =>
          /\ last'.outcome = "rejected"
          /\ InputsKeepStatus(last'.tx)
          /\ (\A k \in 1..4 : ~Violates(Engine, last'.tx, k)) =>
                 last'.msg \in BlacklistMessages]_vars

\* A TRANSFER of a flagged UTXO of the blacklisted alice, signed by her and
\* breaking no other rule, has been rejected with a blacklist error.
C21_Witness ==
    /\ IsTx(last, TRANSFER)
    /\ last.msg \in BlacklistMessages
    /\ "alice" \in blacklist
    /\ \E i \in 1..Len(last.tx.inputs) : utxos[last.tx.inputs[i]].metadata.blacklist_flag
    /\ \A k \in (1..8) \ {5} : ~Violates(Engine, last.tx, k)

\* owner_id is registered with a KYC level and not on the blacklist of e
Vetted(e, owner_id) == owner_id \in DOMAIN e.kyc_registry /\ owner_id \notin e.blacklist

\* C22. TRANSFER recipients are vetted: every UTXO created by a successful
\* TRANSFER is owned by an identity that, at the time of the transaction, has
\* a registered KYC level and is not on the blacklist; a TRANSFER with an
\* output owner who lacks registration or is blacklisted is rejected.
C22_RecipientsVetted ==
    [][IsTx(last', TRANSFER) =>
          LET tx == last'.tx
          IN /\ last'.outcome = "ok" =>
                   \A i \in 1..Len(tx.outputs) :
                       Vetted(Engine, utxos'[UtxoId(tx.tx_id, i - 1)].owner_id)
             /\ (\E i \in 1..Len(tx.outputs) :
                     /\ "owner_id" \in DOMAIN tx.outputs[i]
                     /\ ~Vetted(Engine, tx.outputs[i].owner_id)) =>
                   last'.outcome = "rejected"]_vars

\* The usage recorded for every registered owner and every day is within the
\* ceiling of the owner's KYC level.
UsageWithinCeiling ==
    \A o \in DOMAIN daily_transfer_tracking, d \in Days :
        UsedOn(daily_transfer_tracking, o, d) > 0 =>
            /\ o \in DOMAIN kyc_registry
            /\ UsedOn(daily_transfer_tracking, o, d) <= KYC_DAILY_LIMITS[kyc_registry[o]]

\* C23. Daily limit: a TRANSFER that passes the earlier checks, from a
\* registered sender, is rejected by the daily-limit check exactly when the
\* usage recorded for the sender for the current UTC day plus the total of its
\* output amounts exceeds the ceiling of the sender's KYC level; and while no
\* owner's KYC level changes, the usage recorded for an owner for a day never
\* exceeds the ceiling of the owner's level.
C23_DailyLimit ==
    /\ []UsageWithinCeiling
    /\ [][IsTx(last', TRANSFER) =>
             LET tx == last'.tx
                 sender == utxos[tx.inputs[1]].owner_id
                 reaches == /\ \A k \in 1..7 : ~Violates(Engine, tx, k)
                            /\ sender \in DOMAIN kyc_registry
                 over == UsedOn(daily_transfer_tracking, sender, today) + OutputSum(tx.outputs)
                             > KYC_DAILY_LIMITS[kyc_registry[sender]]
             IN /\ last'.msg = "Daily limit exceeded" => (reaches /\ over)
                /\ (reaches /\ over) =>
                       (last'.outcome = "rejected" /\ last'.msg = "Daily limit exceeded")
                /\ (reaches /\ ~over) => last'.outcome = "ok"]_vars

\* On the second day a TRANSFER from a sender with usage already recorded for
\* that day has been rejected by the daily-limit check.
C23_Witness ==
    /\ IsTx(last, TRANSFER)
    /\ last.msg = "Daily limit exceeded"
    /\ today = "d1"
    /\ UsedOn(daily_transfer_tracking, utxos[last.tx.inputs[1]].owner_id, "d1") > 0

\* C24. Immutable transaction log: every step keeps each log entry as it is,
\* and adds at most the record of the transaction that the step executed
\* successfully, under its tx_id.
C24_LogImmutable ==
    [][/\ \A t \in DOMAIN transactions :
            t \in DOMAIN transactions' /\ transactions'[t] = transactions[t]
       /\ \A t \in DOMAIN transactions' \ DOMAIN transactions :
            /\ last'.op = "process_transaction"
            /\ last'.outcome = "ok"
            /\ last'.tx.tx_id = t
            /\ transactions'[t] = last'.tx]_vars

\* C25. Malformed input is rejected, not crashed on: every call of
\* process_transaction returns a result; none ends with an uncaught error.
C25_NoUncaughtError == last.op = "process_transaction" => last.outcome # "raised"

EngineUnchanged ==
    UNCHANGED <<utxos, transactions, total_supply, verified_reserves, kyc_registry,
                blacklist, daily_transfer_tracking>>

\* C26. freeze_utxo fails, changing nothing, when the id is not in the ledger
\* or the UTXO is Spent; in every other case (Active or already Frozen) it
\* succeeds, sets that UTXO's status to Frozen and its freeze_reason to the
\* given reason, and changes no other UTXO, nor total_supply,
\* verified_reserves or the transaction log.
C26_FreezeEffect ==
    [][last'.op = "freeze_utxo" =>
          LET id == last'.arg
          IN IF id \notin DOMAIN utxos \/ utxos[id].status = SPENT
             THEN last'.outcome = "rejected" /\ EngineUnchanged
             ELSE /\ last'.outcome = "ok"
                  /\ utxos[id].status \in {ACTIVE, FROZEN}
                  /\ utxos' = [utxos EXCEPT ![id].status = FROZEN,
                                            ![id].metadata.freeze_reason = last'.reason]
                  /\ UNCHANGED <<transactions, total_supply, verified_reserves>>]_vars

\* freeze_utxo has just frozen a UTXO for an audit, in a ledger that also
\* holds a Spent UTXO, after an earlier freeze.
C26_Witness ==
    /\ last.op = "freeze_utxo"
    /\ last.outcome = "ok"
    /\ last.reason = "audit"
    /\ utxos[last.arg].status = FROZEN
    /\ utxos[last.arg].metadata.freeze_reason = "audit"
    /\ \E id \in DOMAIN utxos : utxos[id].status = SPENT

\* C27. unfreeze_utxo fails, changing nothing, when the id is not in the
\* ledger or the UTXO is not Frozen (Active or Spent); otherwise it sets the
\* status to Active and freeze_reason to null and changes nothing else; it
\* never turns a Spent UTXO into an Active one.
C27_UnfreezeEffect ==
    [][last'.op = "unfreeze_utxo" =>
          LET id == last'.arg
          IN /\ IF id \notin DOMAIN utxos \/ utxos[id].status # FROZEN
                THEN last'.outcome = "rejected" /\ EngineUnchanged
                ELSE /\ last'.outcome = "ok"
                     /\ utxos' = [utxos EXCEPT ![id].status = ACTIVE,
                                               ![id].metadata.freeze_reason = None]
                     /\ UNCHANGED <<transactions, total_supply, verified_reserves>>
             /\ \A u \in DOMAIN utxos : utxos[u].status = SPENT => utxos'[u].status = SPENT]_vars

\* unfreeze_utxo has just been refused on a Spent UTXO.
C27_Witness ==
    /\ last.op = "unfreeze_utxo"
    /\ last.outcome = "rejected"
    /\ HasStatus(utxos, last.arg, SPENT)
    /\ \E id \in DOMAIN utxos : id \in frozen_ids

\* C28. Snapshot round trip: importing the result of export_state yields the
\* same UTXO map, the same transaction log, the same total_supply and the same
\* verified_reserves, and get_balance, get_utxo and get_total_supply return
\* the same values as on the exporting engine.
C28_SnapshotRoundTrip ==
    [][last'.op = "import_state" =>
          /\ last'.outcome = "ok"
          /\ utxos' = utxos
          /\ transactions' = transactions
          /\ total_supply' = total_supply
          /\ verified_reserves' = verified_reserves
          /\ \A o \in Owners : get_balance(Engine', o) = get_balance(Engine, o)
          /\ \A id \in UtxoIds :
                /\ HasUtxo(Engine', id) = HasUtxo(Engine, id)
                /\ get_utxo(Engine', id) = get_utxo(Engine, id)
          /\ get_total_supply(Engine') = get_total_supply(Engine)]_vars

\* A snapshot of a ledger with a Spent, a Frozen UTXO with its reason, a
\* logged transaction and reserves has just been imported.
C28_Witness ==
    /\ last.op = "import_state"
    /\ \E id \in DOMAIN utxos : utxos[id].status = SPENT
    /\ \E id \in DOMAIN utxos :
          utxos[id].status = FROZEN /\ utxos[id].metadata.freeze_reason = "court order"
    /\ transactions # EmptyDict
    /\ verified_reserves > 0
    /\ total_supply > 0

\* C29. BURN authorization: a BURN over Active inputs is refused at the
\* authorization step exactly when its signatures hold neither the key
\* "issuer" nor the identity of an owner of one of its inputs; an authorized
\* BURN that meets the minimum amount, also one over UTXOs of several owners
\* signed by one of them, succeeds and marks every input Spent.
C29_BurnAuthorization ==
    [][LET tx == last'.tx
           authorized ==
               \/ "issuer" \in DOMAIN tx.signatures
               \/ \E i \in 1..Len(tx.inputs) :
                      utxos[tx.inputs[i]].owner_id \in DOMAIN tx.signatures
       IN (/\ IsTx(last', BURN)
           /\ tx.inputs # <<>>
           /\ tx.outputs = <<>>
           /\ \A i \in 1..Len(tx.inputs) : HasStatus(utxos, tx.inputs[i], ACTIVE)) =>
              /\ (last'.msg = "BURN requires issuer or owner signature") <=> ~authorized
              /\ (/\ authorized
                  /\ tx.policy_ref \in DOMAIN policies
                  /\ ListedAmount(utxos, tx.inputs) >= policies[tx.policy_ref].min_burn_amount) =>
                     /\ last'.outcome = "ok"
                     /\ \A i \in 1..Len(tx.inputs) :
                           HasStatus(utxos', tx.inputs[i], SPENT)]_vars

\* A BURN of a UTXO of alice and a UTXO of bob, signed by alice alone, has
\* succeeded and both are Spent.
C29_Witness ==
    /\ IsTx(last, BURN)
    /\ last.outcome = "ok"
    /\ DOMAIN last.tx.signatures = {"alice"}
    /\ {utxos[last.tx.inputs[i]].owner_id : i \in 1..Len(last.tx.inputs)} = {"alice", "bob"}
    /\ \A i \in 1..Len(last.tx.inputs) : utxos[last.tx.inputs[i]].status = SPENT

\* C30. Per-transaction mint cap: a MINT whose total output amount is greater
\* than max_mint_per_tx of the policy named by policy_ref is rejected and
\* leaves total_supply unchanged; no successful MINT raises total_supply by
\* more than max_mint_per_tx.
C30_MintCap ==
    [][(/\ IsTx(last', MINT)
        /\ ~OutputSumRaises(last'.tx.outputs)
        /\ last'.tx.policy_ref \in DOMAIN policies) =>
          LET cap == policies[last'.tx.policy_ref].max_mint_per_tx
          IN /\ OutputSum(last'.tx.outputs) > cap =>
                   (last'.outcome = "rejected" /\ total_supply' = total_supply)
             /\ last'.outcome = "ok" => total_supply' - total_supply <= cap]_vars

\* A MINT of two outputs, each within the maximum and above it together, has
\* been rejected by the policy limit with reserves that cover it.
C30_Witness ==
    /\ IsTx(last, MINT)
    /\ last.msg = "Mint amount exceeds max"
    /\ Len(last.tx.outputs) = 2
    /\ total_supply + OutputSum(last.tx.outputs) <= verified_reserves

\* C31. Unknown policy: a MINT or BURN whose policy_ref is not a registered
\* policy version is rejected with an 'Unknown policy' error and changes no
\* state.
C31_UnknownPolicyRejected ==
    [][((IsTx(last', MINT) \/ IsTx(last', BURN)) /\ last'.tx.policy_ref \notin DOMAIN policies) =>
          /\ last'.outcome = "rejected"
          /\ last'.msg = "Unknown policy"
          /\ EngineUnchanged]_vars

\* The record o (an output specification or a stored UTXO) carries the fixed
\* asset code, an amount in 1..MAX_UTXO_AMOUNT, a KYC level above level 0, an
\* allowed jurisdiction and the status Active.
WellFormed(o) ==
    /\ {"asset_code", "amount", "kyc_tag", "status", "metadata"} \subseteq DOMAIN o
    /\ o.asset_code = ASSET_CODE
    /\ o.amount > 0 /\ o.amount <= MAX_UTXO_AMOUNT
    /\ o.kyc_tag \in KYCLevel \ {LEVEL_0}
    /\ "jurisdiction" \in DOMAIN o.metadata
    /\ o.metadata.jurisdiction \in allowed_jurisdictions
    /\ o.status = ACTIVE

\* The ids under which the step stored a UTXO record.
StoredIds ==
    {id \in DOMAIN utxos' :
        \/ id \notin DOMAIN utxos
        \/ utxos'[id] # utxos[id] /\ utxos'[id].status # SPENT}

\* C32. Well-formed ledger: every UTXO a transaction stores has the fixed
\* asset code, 0 < amount <= MAX_UTXO_AMOUNT, a known KYC level other than
\* level 0, an allowed jurisdiction and status Active when created; a
\* transaction with an output that violates one of these is rejected as a
\* whole and creates none of its outputs.
C32_WellFormedLedger ==
    [][(IsTx(last', MINT) \/ IsTx(last', TRANSFER)) =>
          /\ \A id \in StoredIds : WellFormed(utxos'[id])
          /\ (\E i \in 1..Len(last'.tx.outputs) : ~WellFormed(last'.tx.outputs[i])) =>
                 (last'.outcome = "rejected" /\ utxos' = utxos)]_vars

\* The daily-usage mapping after amount is added to owner_id's bucket for day.
UsageAdded(tracking, owner_id, day, amount) ==
    [o \in DOMAIN tracking \cup {owner_id} |->
        IF o # owner_id THEN tracking[o]
        ELSE LET used == IF o \in DOMAIN tracking THEN tracking[o] ELSE EmptyDict
             IN [d \in DOMAIN used \cup {day} |->
                    IF d = day THEN UsedOn(tracking, o, d) + amount ELSE used[d]]]

\* C33. Daily usage is recorded only at commit: the per-owner daily usage
\* mapping changes only through a successful TRANSFER, which adds exactly the
\* total output amount to the sender's bucket for the current day; rejected
\* TRANSFERs (also those the daily-limit check rejects), MINT, BURN and
\* admin operations leave the whole mapping unchanged.
C33_UsageRecordedAtCommit ==
    [][IF IsTx(last', TRANSFER) /\ last'.outcome = "ok"
       THEN daily_transfer_tracking' =
                UsageAdded(daily_transfer_tracking, utxos[last'.tx.inputs[1]].owner_id,
                           today', OutputSum(last'.tx.outputs))
       ELSE daily_transfer_tracking' = daily_transfer_tracking]_vars

\* C34. Highest KYC tier is unlimited: a TRANSFER whose sender is registered
\* at KYC_LEVEL_3 is never rejected by the daily-limit check, for any total
\* output amount the ledger can hold (outputs each up to MAX_UTXO_AMOUNT) and
\* any usage already recorded that day.
C34_HighestTierUnlimited ==
    [][(/\ IsTx(last', TRANSFER)
        /\ \E i \in 1..Len(last'.tx.inputs) :
              /\ last'.tx.inputs[i] \in DOMAIN utxos
              /\ get_kyc_level(Engine, utxos[last'.tx.inputs[i]].owner_id) = LEVEL_3) =>
          last'.msg # "Daily limit exceeded"]_vars

\* owner_id has no KYC registration or is registered at KYC level 0.
Unverified(owner_id) ==
    owner_id \notin DOMAIN kyc_registry \/ kyc_registry[owner_id] = LEVEL_0

\* C35. Lowest tier and unregistered senders cannot transfer: while an owner
\* is registered at KYC level 0 or not registered at all, no TRANSFER of that
\* owner's UTXOs succeeds and its inputs keep their status; a UTXO of such an
\* owner that is Active or Frozen stays Active or Frozen through every step
\* other than a successful BURN.
C35_UnverifiedCannotTransfer ==
    [][/\ (/\ IsTx(last', TRANSFER)
           /\ \E i \in 1..Len(last'.tx.inputs) :
                 /\ last'.tx.inputs[i] \in DOMAIN utxos
                 /\ Unverified(utxos[last'.tx.inputs[i]].owner_id)) =>
             (last'.outcome # "ok" /\ InputsKeepStatus(last'.tx))
       /\ \A id \in DOMAIN utxos :
             (/\ Unverified(utxos[id].owner_id)
              /\ utxos[id].status \in {ACTIVE, FROZEN}
              /\ ~(IsTx(last', BURN) /\ last'.outcome = "ok")) =>
                 (id \in DOMAIN utxos' /\ utxos'[id].status \in {ACTIVE, FROZEN})]_vars

\* A TRANSFER of a UTXO of alice, registered at level 0, that breaks no rule
\* of the steps before the daily-limit check has been rejected by that check
\* and its input is still Active.
C35_Witness ==
    /\ IsTx(last, TRANSFER)
    /\ last.outcome = "rejected"
    /\ last.msg = "Daily limit exceeded"
    /\ "alice" \in DOMAIN kyc_registry /\ kyc_registry["alice"] = LEVEL_0
    /\ \A i \in 1..Len(last.tx.inputs) :
          /\ HasStatus(utxos, last.tx.inputs[i], ACTIVE)
          /\ utxos[last.tx.inputs[i]].owner_id = "alice"
    /\ \A k \in 1..7 : ~Violates(Engine, last.tx, k)

\* C36. Blacklist enforced on every transition that creates value: no
\* successful MINT or TRANSFER creates a UTXO whose owner is on the registry
\* blacklist at the time the transaction is processed.
C36_NoValueToBlacklisted ==
    [][((IsTx(last', MINT) \/ IsTx(last', TRANSFER)) /\ last'.outcome = "ok") =>
          \A i \in 1..Len(last'.tx.outputs) : last'.tx.outputs[i].owner_id \notin blacklist]_vars

\* C37. set_verified_reserves frame: set_verified_reserves(amount) always
\* succeeds, sets verified_reserves to the given amount whatever the current
\* total_supply, and changes nothing else (UTXOs, total_supply, log,
\* registry); no transaction and no freeze / unfreeze operation changes
\* verified_reserves.
C37_ReservesFrame ==
    [][IF last'.op = "set_verified_reserves"
       THEN /\ last'.outcome = "ok"
            /\ verified_reserves' = last'.arg
            /\ UNCHANGED <<utxos, total_supply, transactions, kyc_registry, blacklist,
                           daily_transfer_tracking>>
       ELSE verified_reserves' = verified_reserves]_vars

\* set_verified_reserves has just set the reserves below the current supply.
C37_Witness ==
    /\ last.op = "set_verified_reserves"
    /\ last.outcome = "ok"
    /\ verified_reserves = last.arg
    /\ verified_reserves < total_supply

\* C38. total_supply is never negative: in every state reachable by any
\* sequence of transactions (with arbitrary input lists) and admin operations
\* from an empty engine, total_supply >= 0.
C38_SupplyNonNegative == total_supply >= 0

\* The TRANSFER tx under the other policy name of the policy desk.
Twin(tx) ==
    [tx EXCEPT !.policy_ref = IF @ = "POLICY_V1.0" THEN "POLICY_V0.9" ELSE "POLICY_V1.0"]

\* The result of the engine of the state before the step processing the twin
\* of the TRANSFER the step processed, with the same clock readings.
TwinResult == process_transaction(Engine, Twin(last'.tx), today, today')

\* C39. TRANSFER ignores policy_ref: two engines in equal states processing
\* TRANSFERs that differ only in policy_ref (one naming a registered policy
\* version, the other an unregistered one) return the same success flag and
\* reach equal states.
C39_TransferIgnoresPolicyRef ==
    [][IsTx(last', TRANSFER) =>
          /\ Outcome(TwinResult) = last'.outcome
          /\ TwinResult.e = Engine']_vars

\* C39 (amended). The two TRANSFERs return the same success flag and message
\* and reach states that are equal except for the policy_ref of the record
\* that each successful TRANSFER appends to the log under its tx_id.
C39_TransferIgnoresPolicyRefUpToLog ==
    [][IsTx(last', TRANSFER) =>
          /\ Outcome(TwinResult) = last'.outcome
          /\ TwinResult.msg = last'.msg
          /\ IF last'.outcome = "ok"
             THEN /\ [TwinResult.e EXCEPT !.transactions = EmptyDict]
                        = [Engine' EXCEPT !.transactions = EmptyDict]
                  /\ DOMAIN TwinResult.e.transactions = DOMAIN transactions'
                  /\ \A t \in DOMAIN transactions' \ {last'.tx.tx_id} :
                        TwinResult.e.transactions[t] = transactions'[t]
                  /\ TwinResult.e.transactions[last'.tx.tx_id] = Twin(transactions'[last'.tx.tx_id])
             ELSE TwinResult.e = Engine']_vars

\* A TRANSFER that names the unregistered policy POLICY_V0.9 has succeeded
\* and is in the log under that name.
C39_Witness ==
    /\ IsTx(last, TRANSFER)
    /\ last.outcome = "ok"
    /\ last.tx.policy_ref \notin DOMAIN policies
    /\ transactions[last.tx.tx_id].policy_ref = last.tx.policy_ref
    /\ HasStatus(utxos, UtxoId(last.tx.tx_id, 0), ACTIVE)

\* C40. One day per TRANSFER: the daily-limit check and the usage record of
\* one successful TRANSFER refer to the same UTC day: the amount is added to
\* the bucket of the day against which the limit was checked (the date at the
\* start of the call), also when the wall clock crosses a UTC day boundary
\* between the check and the commit, and no other day's bucket changes.
C40_OneDayPerTransfer ==
    [][(IsTx(last', TRANSFER) /\ last'.outcome = "ok") =>
          LET sender == utxos[last'.tx.inputs[1]].owner_id
          IN /\ UsedOn(daily_transfer_tracking', sender, today)
                    = UsedOn(daily_transfer_tracking, sender, today) + OutputSum(last'.tx.outputs)
             /\ \A d \in Days \ {today} :
                    UsedOn(daily_transfer_tracking', sender, d)
                        = UsedOn(daily_transfer_tracking, sender, d)]_vars

\* C10. Validate-then-execute: no error occurs after the first state
\* mutation, so a call that raises leaves the ledger as it found it.
C10_NoErrorAfterMutation ==
    [][(last'.op = "process_transaction" /\ last'.outcome = "raised") => LedgerUnchanged]_vars

====
